---- MODULE Spec2Model ----
(***************************************************************************)
(* Verification model of the enesa-automation-hub execution pipeline:      *)
(* the run registry (create_run_and_enqueue, cancel_run), the worker       *)
(* runtime (run_worker, process_run, _schedule_retry_if_needed), the cron  *)
(* scheduler loop (run_scheduler_cycle) and the SLA monitor loop           *)
(* (run_sla_monitor_cycle, create_alert_if_needed, resolve_alert).         *)
(*                                                                         *)
(* The specifications of the module share its variables:                  *)
(*   Spec      - run lifecycle: registry, one worker, cancel endpoint      *)
(*   SpecSched - scheduler replicas stepping through run_scheduler_cycle   *)
(*   SpecSla   - SLA monitor replicas stepping through the alert upsert    *)
(*   SpecLog   - append_log statement by statement and the log replay      *)
(*   SpecReg   - the robot version registry                                *)
(*   SpecEnq   - create_run_and_enqueue and the retry creation, by steps   *)
(*   SpecCron  - _match_cron_field over typed cron fields                  *)
(*   SpecPool  - run_worker on several workers, pause / resume, one queue  *)
(*   SpecHb    - worker heartbeats and the WORKER_DOWN check of the monitor *)
(*   SpecLate  - the monitor cycle for a robot with an interval SLA rule   *)
(*   SpecEnv   - the child environment built by process_run                *)
(*   SpecRules - the schedule and SLA rule endpoints of one robot          *)
(*   SpecGate  - scheduler replicas next to manual runs and retries        *)
(*   SpecStreak - the monitor cycle for a robot with a failure-streak rule *)
(*   SpecBusy  - run_worker with process_run as a call that takes time     *)
(*   SpecBroker - run_worker when broker calls raise                       *)
(*   SpecBackoff - workers and a message with not_before_ts, with fairness *)
(*   SpecLock  - the dispatch lock of run_scheduler_cycle, in-process      *)
(*   SpecCycle - one run_scheduler_cycle over several schedules            *)
(*   SpecStream - run_log_stream: replay query, then subscription          *)
(*   SpecRestart - worker processes that start, with fairness              *)
(*                                                                         *)
(* The relational store is taken to be available: a commit succeeds.       *)
(* What can fail is the broker (publish / lpush), the filesystem           *)
(* (workspace materialization, artifact registration) and process spawn.   *)
(***************************************************************************)
EXTENDS Integers, Sequences, FiniteSets, TLC

(***************************************************************************)
(* Bounds of the model                                                     *)
(***************************************************************************)
MaxTime == 2
MaxRetry == 1
MaxConcurrency == 2
MaxAlerts == 3
MaxLines == 3
ReplayLimit == 2
MaxVersions == 3
MaxRuns == 2
MaxFieldLen == 5
MaxValue == 2
MaxPauses == 2
MaxTicks == 3
MaxWrites == 2
MaxSchedules == 2

(***************************************************************************)
(* Program constants                                                       *)
(***************************************************************************)
NULL == -1
LongAgo == -1
DefaultTimeout == 3600
SecondsPerMinute == 60
MinBackoff == 1

PENDING == "PENDING"
RUNNING == "RUNNING"
SUCCESS == "SUCCESS"
FAILED == "FAILED"
CANCELED == "CANCELED"
Terminal == {SUCCESS, FAILED, CANCELED}

MANUAL == "MANUAL"
SCHEDULED == "SCHEDULED"
RETRY == "RETRY"

NoMessage == "NULL"
NoUser == "NULL"
Unlocked == "NULL"
Principals == {"alice", "svc"}
ExitCodes == {0, 1}
Replicas == {"s1", "s2"}
Monitors == {"m1", "m2"}
AlertTypes == {"LATE", "FAILURE_STREAK"}

\* principal.user.id if principal.user else None
UserOf(p) == IF p = "svc" THEN NoUser ELSE p

VARIABLES
    runs,       \* runs table: run_id -> Run row (run_id = position)
    queue,      \* broker list: Head = left end (lpush), Last = right end (brpop)
    logs,       \* run_logs table in id order: [run_id, level, message]
    audit,      \* audit_events table in insertion order
    schedule,   \* the robot's Schedule row
    now,        \* wall clock, seconds
    wk,         \* the worker: position inside run_worker / process_run and its locals
    proc,       \* the child process of the current run
    resp,       \* last call of the cancel endpoint: run, caller, status code
    called,     \* run ids run_worker has passed to process_run
    sch,        \* scheduler replicas: position inside run_scheduler_cycle and now_utc
    slock,      \* holder of the application lock schedule-dispatch:<robot>
    sdue,       \* history: run_id -> now_utc of the cycle that dispatched it
    mon,        \* monitor replicas: position inside create_alert_if_needed
    alerts,     \* alert_events table in insertion order
    chan,       \* frames published on the run-log channels, in publish order
    lw,         \* SpecLog: the worker as caller of append_log
    lineq,      \* SpecLog: line_queue of the supervision loop
    calls,      \* history: the rows append_log was called with, in call order
    sub,        \* SpecLog: a subscriber of the log stream endpoint
    robots,     \* robots table: the set of robot ids
    versions,   \* robot_versions table: version id -> RobotVersion row (id = position)
    rtags,      \* robot_release_tags table: <<robot_id, tag>> -> version id
    envs,       \* robot_env_vars table: the set of <<robot_id, env_name, key>>
    rc,         \* SpecEnq: the caller of create_run_and_enqueue and its last call
    cron,       \* SpecCron: one field of a cron_expr, character by character
    cres,       \* SpecCron: what _match_cron_field returned for it
    workers,    \* workers table: worker id -> Worker row
    pool,       \* SpecPool: worker id -> position inside run_worker and its locals
    handed,     \* history: run id of an enqueued message -> number of process_run calls for it
    hbkeys,     \* broker keys of the heartbeat keyspace: [worker, ts, expires_at]
    slarules,   \* sla_rules table: the SlaRule row of the robot, if it has one
    childenv,   \* SpecEnv: the sources of a child environment and the dict built from them
    cycle       \* SpecCycle: one run_scheduler_cycle over the enabled schedules

runVars == <<runs, queue, logs, audit, schedule, now, wk, proc, resp, called>>
schedVars == <<sch, slock, sdue>>
slaVars == <<mon, alerts>>
logVars == <<chan, lw, lineq, calls, sub>>
\* the variables of the specifications other than Spec, SpecSched and SpecSla
regVars == <<robots, versions, rtags, envs, rc>>
\* the variables of the specifications after SpecLog
cronVars == <<cron, cres>>
\* the variables of the worker pool and of the operational stores
poolVars == <<workers, pool, handed>>
monVars == <<hbkeys, slarules>>
envVars == <<childenv>>
cycVars == <<cycle>>
opsVars == <<poolVars, monVars, envVars, cycVars>>
extVars == <<regVars, cronVars, opsVars>>
auxVars == <<logVars, extVars>>
vars == <<runs, queue, logs, audit, schedule, now, wk, proc, resp, called,
          sch, slock, sdue, mon, alerts, chan, lw, lineq, calls, sub,
          robots, versions, rtags, envs, rc, cron, cres,
          workers, pool, handed, hbkeys, slarules, childenv, cycle>>

(***************************************************************************)
(* Rows                                                                    *)
(***************************************************************************)
\* Run(...) as built by create_run_and_enqueue and _schedule_retry_if_needed.
\* retry_of is a history field: the run whose failure created this row.
NewRun(trigger, attempt, schedule_id, service_id, env_name, retry_of, queued_at) ==
    [status |-> PENDING,
     trigger_type |-> trigger,
     attempt |-> attempt,
     schedule_id |-> schedule_id,
     service_id |-> service_id,
     env_name |-> env_name,
     queued_at |-> queued_at,
     started_at |-> NULL,
     finished_at |-> NULL,
     duration_seconds |-> NULL,
     process_id |-> NULL,
     cancel_requested |-> FALSE,
     canceled_by |-> NoUser,
     canceled_at |-> NULL,
     error_message |-> NoMessage,
     retry_of |-> retry_of]

Message(run_id, not_before_ts) == [run_id |-> run_id, not_before_ts |-> not_before_ts]

LogRow(run_id, level, message) == [run_id |-> run_id, level |-> level, message |-> message]

\* mutant: new rows get ids below the existing ones
AppendLogs_Prepend(rows) == rows \o logs

\* append_log n times in a row: every row is committed before its publish
AppendLogs(rows) == logs \o rows

WorkerIdle ==
    [pc |-> "idle", run_id |-> NULL, has_schedule |-> FALSE, timeout_seconds |-> DefaultTimeout,
     retry_count |-> 0, retry_backoff_seconds |-> MinBackoff,
     canceled |-> FALSE, timed_out |-> FALSE, last_cancel_check |-> LongAgo,
     started_monotonic |-> NULL, exc |-> NoMessage]


(***************************************************************************)
(* Run registry: create_run_and_enqueue and its callers                    *)
(***************************************************************************)
\* ScheduleCreate: retry_count >= 0, retry_backoff_seconds >= 1,
\* timeout_seconds >= 1, max_concurrency >= 1
ScheduleRows(retries, concurrency) ==
    [id : {1},
     retry_count : retries,
     retry_backoff_seconds : {1},
     timeout_seconds : {1},
     max_concurrency : concurrency]

Schedules == ScheduleRows(0..MaxRetry, {1})

\* the rows create_run_and_enqueue writes for its three callers: the execute
\* endpoint, the portal's service execution, run_scheduler_cycle
RootRuns(s) ==
    {NewRun(MANUAL, 1, NULL, NULL, "PROD", NULL, 0),
     NewRun(MANUAL, 1, NULL, 1, "TEST", NULL, 0),
     NewRun(SCHEDULED, 1, s.id, NULL, "PROD", NULL, 0)}

\* the audit event of the caller
CreateAudit(run) ==
    [action |-> IF run.trigger_type = SCHEDULED THEN "schedule.dispatched" ELSE "run.triggered",
     target |-> 1,
     actor |-> NoUser]

\* the state after one create_run_and_enqueue: the row is committed and its
\* message is in the queue
RunInit ==
    /\ schedule \in Schedules
    /\ \E root \in RootRuns(schedule) :
          /\ runs = <<root>>
          /\ audit = <<CreateAudit(root)>>
    /\ queue = <<Message(1, NULL)>>
    /\ logs = <<>>
    /\ now = 0
    /\ wk = WorkerIdle
    /\ proc = [state |-> "none", code |-> NULL]
    /\ resp = [run_id |-> NULL, code |-> NULL, principal |-> NoUser]
    /\ called = {}

(***************************************************************************)
(* POST /runs/{run_id}/cancel                                              *)
(***************************************************************************)
\* the status check of cancel_run: 200 / 409
CancelResponse(run) ==
    IF run.status = CANCELED THEN 200
    ELSE IF run.status # RUNNING THEN 409
    ELSE 200

\* mutant: the write is not limited to RUNNING runs
CancelWrites_AnyStatus(run) == ~run.cancel_requested

\* mutant: a repeated call writes again
CancelWrites_Repeated(run) == run.status = RUNNING

\* the guard in front of the write and the audit event
CancelWrites(run) == run.status = RUNNING /\ ~run.cancel_requested

CancelRun(r, principal) ==
    /\ r \in DOMAIN runs
    /\ resp' = [run_id |-> r, code |-> CancelResponse(runs[r]), principal |-> principal]
    /\ IF CancelWrites(runs[r])
       THEN /\ runs' = [runs EXCEPT ![r].cancel_requested = TRUE,
                                     ![r].canceled_by = UserOf(principal)]
            /\ audit' = Append(audit, [action |-> "run_cancel_requested", target |-> r,
                                        actor |-> UserOf(principal)])
       ELSE UNCHANGED <<runs, audit>>
    /\ UNCHANGED <<queue, logs, schedule, now, wk, proc, called, schedVars, slaVars, auxVars>>

(***************************************************************************)
(* Clock and child process                                                 *)
(***************************************************************************)
\* The worker's steps are taken as instantaneous; time passes where it blocks:
\* brpop / sleep in run_worker, line_queue.get(timeout=0.2) in the supervision loop.
Tick ==
    /\ now < MaxTime
    /\ wk.pc \in {"idle", "loop", "dead"}
    /\ now' = now + 1
    /\ UNCHANGED <<runs, queue, logs, audit, schedule, wk, proc, resp, called, schedVars, slaVars, auxVars>>

\* the robot program ends by itself
ChildExit ==
    /\ proc.state = "alive"
    /\ \E code \in ExitCodes : proc' = [state |-> "exited", code |-> code]
    /\ UNCHANGED <<runs, queue, logs, audit, schedule, now, wk, resp, called, schedVars, slaVars, auxVars>>


(***************************************************************************)
(* Worker runtime: run_worker and process_run                              *)
(***************************************************************************)
Max(a, b) == IF a >= b THEN a ELSE b

SetRun(r, row) == [runs EXCEPT ![r] = row]

\* a step of process_run raised: control goes to the top-level handler
Raise(exc) == [wk EXCEPT !.pc = "handler", !.exc = exc]

\* run_worker, one iteration with a message in the queue: brpop, then the
\* not_before_ts test; a future-dated message is rpush-ed back
Lease ==
    /\ wk.pc = "idle"
    /\ queue # <<>>
    /\ LET msg == queue[Len(queue)]
           rest == SubSeq(queue, 1, Len(queue) - 1) IN
       IF msg.not_before_ts # NULL /\ now < msg.not_before_ts
       THEN /\ queue' = Append(rest, msg)
            /\ UNCHANGED <<wk, called>>
       ELSE /\ queue' = rest
            /\ wk' = [WorkerIdle EXCEPT !.pc = "begin", !.run_id = msg.run_id]
            /\ called' = called \cup {msg.run_id}
    /\ UNCHANGED <<runs, logs, audit, schedule, now, proc, resp, schedVars, slaVars, auxVars>>

\* process_run, lines 275-295: load run, schedule and version; a missing
\* version fails the run, otherwise the row goes to RUNNING
ProcessRunBegin ==
    /\ wk.pc = "begin"
    /\ LET r == wk.run_id
           run == runs[r]
           has_schedule == run.schedule_id # NULL IN
       \E version_found \in BOOLEAN, published \in BOOLEAN :
          IF version_found
          THEN /\ published
               /\ runs' = SetRun(r, [run EXCEPT !.status = RUNNING, !.started_at = now])
               /\ logs' = logs
               /\ wk' = [wk EXCEPT !.pc = "prepare",
                                   !.has_schedule = has_schedule,
                                   !.timeout_seconds =
                                       IF has_schedule THEN schedule.timeout_seconds ELSE DefaultTimeout,
                                   !.retry_count = IF has_schedule THEN schedule.retry_count ELSE 0,
                                   !.retry_backoff_seconds =
                                       IF has_schedule THEN schedule.retry_backoff_seconds ELSE MinBackoff]
          ELSE /\ runs' = SetRun(r, [run EXCEPT !.status = FAILED,
                                                !.error_message = "Robot version not found.",
                                                !.finished_at = now])
               /\ logs' = AppendLogs(<<LogRow(r, "ERROR", "Robot version not found for execution.")>>)
               /\ wk' = IF published THEN WorkerIdle ELSE Raise("ConnectionError")
    /\ UNCHANGED <<queue, audit, schedule, now, proc, resp, called, schedVars, slaVars, auxVars>>

\* the six start-up log lines of process_run, in call order
StartupRows(r) ==
    <<LogRow(r, "INFO", "Execution started."),
      LogRow(r, "INFO", "Using robot version"),
      LogRow(r, "INFO", "Runtime environment"),
      LogRow(r, "INFO", "Command"),
      LogRow(r, "INFO", "Working directory"),
      LogRow(r, "INFO", "Timeout seconds")>>

\* what can raise between line 297 and line 326, with the number of log rows
\* committed before it: mkdir, the publish of the k-th append_log,
\* _resolve_execution_plan / resolve_runtime_env, Popen
PrepareFailures ==
    {[rows |-> 0, exc |-> "OSError"]}
    \cup {[rows |-> k, exc |-> "ConnectionError"] : k \in 1..6}
    \cup {[rows |-> 3, exc |-> "Version artifact not found"],
          [rows |-> 3, exc |-> "Entrypoint not found inside ZIP workspace"],
          [rows |-> 6, exc |-> "OSError"]}

\* process_run, lines 297-336: workspace, start-up logs, plan, environment, spawn
Prepare ==
    /\ wk.pc = "prepare"
    /\ LET r == wk.run_id IN
       \/ /\ logs' = AppendLogs(StartupRows(r))
          /\ proc' = [state |-> "alive", code |-> NULL]
          /\ runs' = SetRun(r, [runs[r] EXCEPT !.process_id = 1])
          /\ wk' = [wk EXCEPT !.pc = "loop", !.started_monotonic = now]
       \/ \E f \in PrepareFailures :
             /\ logs' = AppendLogs(SubSeq(StartupRows(r), 1, f.rows))
             /\ wk' = Raise(f.exc)
             /\ UNCHANGED <<runs, proc>>
    /\ UNCHANGED <<queue, audit, schedule, now, resp, called, schedVars, slaVars, auxVars>>

\* _is_cancel_requested
IsCancelRequested(run) == run.cancel_requested /\ run.status = RUNNING

\* the timeout test of the supervision loop
TimedOut(canceled, alive, timeout_seconds, elapsed) ==
    ~canceled /\ alive /\ timeout_seconds > 0 /\ elapsed > timeout_seconds

\* process_run, lines 339-367: one iteration of the supervision loop
Supervise ==
    /\ wk.pc = "loop"
    /\ LET r == wk.run_id
           alive == proc.state = "alive"
           check == alive /\ (now - wk.last_cancel_check) >= 1
           checked == IF check THEN [wk EXCEPT !.last_cancel_check = now] ELSE wk IN
       IF check /\ IsCancelRequested(runs[r])
       THEN /\ logs' = AppendLogs(<<LogRow(r, "INFO", "Execution canceled by user")>>)
            /\ \E published \in BOOLEAN :
                  IF published
                  THEN /\ \E code \in ExitCodes : proc' = [state |-> "exited", code |-> code]
                       /\ wk' = [checked EXCEPT !.canceled = TRUE, !.pc = "finalize"]
                  ELSE /\ proc' = proc
                       /\ wk' = [checked EXCEPT !.canceled = TRUE, !.pc = "handler",
                                                !.exc = "ConnectionError"]
       ELSE IF TimedOut(wk.canceled, alive, wk.timeout_seconds, now - wk.started_monotonic)
       THEN /\ \E code \in ExitCodes : proc' = [state |-> "exited", code |-> code]
            /\ logs' = AppendLogs(<<LogRow(r, "ERROR", "TIMEOUT: exceeded")>>)
            /\ \E published \in BOOLEAN :
                  wk' = IF published
                        THEN [checked EXCEPT !.timed_out = TRUE, !.pc = "finalize"]
                        ELSE [checked EXCEPT !.timed_out = TRUE, !.pc = "handler",
                                             !.exc = "ConnectionError"]
       ELSE /\ wk' = IF alive THEN checked ELSE [checked EXCEPT !.pc = "finalize"]
            /\ UNCHANGED <<logs, proc>>
    /\ UNCHANGED <<runs, queue, audit, schedule, now, resp, called, schedVars, slaVars, auxVars>>

\* mutant: the exit code is looked at before the timeout
FinalStatus_CodeFirst(canceled, timed_out, return_code) ==
    IF canceled THEN [status |-> CANCELED, error_message |-> NoMessage]
    ELSE IF return_code = 0 THEN [status |-> SUCCESS, error_message |-> NoMessage]
    ELSE [status |-> FAILED,
          error_message |-> IF timed_out THEN "TIMEOUT"
                            ELSE "Process returned exit code 1"]

\* the finalization decision, lines 375-387
FinalStatus(canceled, timed_out, return_code) ==
    IF canceled THEN [status |-> CANCELED, error_message |-> NoMessage]
    ELSE IF return_code = 0 /\ ~timed_out THEN [status |-> SUCCESS, error_message |-> NoMessage]
    ELSE [status |-> FAILED,
          error_message |-> IF timed_out THEN "TIMEOUT"
                            ELSE "Process returned exit code 1"]

FinalLog(r, final) ==
    IF final.status = CANCELED THEN LogRow(r, "INFO", "Execution marked as CANCELED.")
    ELSE IF final.status = SUCCESS THEN LogRow(r, "INFO", "Execution finished successfully.")
    ELSE LogRow(r, "ERROR", final.error_message)

\* process_run, lines 369-389: the row is written by the commit inside
\* append_log, before that log's publish
Finalize ==
    /\ wk.pc = "finalize"
    /\ LET r == wk.run_id
           run == runs[r]
           final == FinalStatus(wk.canceled, wk.timed_out, proc.code) IN
       /\ runs' = SetRun(r, [run EXCEPT !.finished_at = now,
                                        !.duration_seconds = now - run.started_at,
                                        !.process_id = NULL,
                                        !.status = final.status,
                                        !.error_message = final.error_message,
                                        !.canceled_at =
                                            IF final.status = CANCELED THEN now ELSE run.canceled_at])
       /\ logs' = AppendLogs(<<FinalLog(r, final)>>)
       /\ proc' = [state |-> "none", code |-> NULL]
       /\ \E published \in BOOLEAN :
             wk' = IF published THEN [wk EXCEPT !.pc = "artifacts"] ELSE Raise("ConnectionError")
    /\ UNCHANGED <<queue, audit, schedule, now, resp, called, schedVars, slaVars, auxVars>>

\* register_artifacts: walking the run directory can raise
RegisterArtifacts ==
    /\ wk.pc = "artifacts"
    /\ \E ok \in BOOLEAN :
          wk' = IF ok THEN [wk EXCEPT !.pc = "retry"] ELSE Raise("OSError")
    /\ UNCHANGED <<runs, queue, logs, audit, schedule, now, proc, resp, called, schedVars, slaVars, auxVars>>

\* mutant: one attempt too many
RetryNeeded_OffByOne(run, has_schedule, retry_count) ==
    /\ run.status = FAILED
    /\ has_schedule
    /\ run.attempt <= retry_count + 1

\* mutant: every run that did not succeed is retried
RetryNeeded_NotSuccess(run, has_schedule, retry_count) ==
    /\ run.status # SUCCESS
    /\ has_schedule
    /\ run.attempt <= retry_count

\* the three early returns of _schedule_retry_if_needed
RetryNeeded(run, has_schedule, retry_count) ==
    /\ run.status = FAILED
    /\ has_schedule
    /\ run.attempt <= retry_count

\* Run(...) of _schedule_retry_if_needed
RetryRun(run, r) ==
    NewRun(RETRY, run.attempt + 1, run.schedule_id, run.service_id, run.env_name, r, now)

\* mutant: the retry is due at once
RetryNotBefore_NoBackoff(backoff) == now

\* not_before_ts of the retry payload
RetryNotBefore(backoff) == now + Max(1, backoff)

\* _schedule_retry_if_needed, then finalize_metrics and return
ScheduleRetry ==
    /\ wk.pc = "retry"
    /\ LET r == wk.run_id
           run == runs[r]
           retry_id == Len(runs) + 1 IN
       IF ~RetryNeeded(run, wk.has_schedule, wk.retry_count)
       THEN /\ wk' = WorkerIdle
            /\ UNCHANGED <<runs, queue, logs>>
       ELSE /\ runs' = Append(runs, RetryRun(run, r))
            /\ \E outcome \in {"ok", "lpush", "llen", "publish"} :
                  /\ queue' = IF outcome = "lpush" THEN queue
                              ELSE <<Message(retry_id, RetryNotBefore(wk.retry_backoff_seconds))>> \o queue
                  /\ logs' = IF outcome \in {"ok", "publish"}
                             THEN AppendLogs(<<LogRow(r, "WARN", "Retry scheduled")>>)
                             ELSE logs
                  /\ wk' = IF outcome = "ok" THEN WorkerIdle ELSE Raise("ConnectionError")
    /\ UNCHANGED <<audit, schedule, now, proc, resp, called, schedVars, slaVars, auxVars>>

\* mutant: the handler records the error and leaves the status
HandlerRow_KeepStatus(run, exc) ==
    [run EXCEPT !.finished_at = now,
                !.duration_seconds = IF run.started_at # NULL THEN now - run.started_at ELSE NULL,
                !.error_message = exc]

\* mutant: the handler leaves duration_seconds as it was
HandlerRow_NoDuration(run, exc) ==
    [run EXCEPT !.status = FAILED,
                !.finished_at = now,
                !.error_message = exc]

\* mutant: the handler resets the cancel request
HandlerRow_ClearsCancel(run, exc) ==
    [run EXCEPT !.status = FAILED,
                !.finished_at = now,
                !.duration_seconds = IF run.started_at # NULL THEN now - run.started_at ELSE NULL,
                !.error_message = exc,
                !.cancel_requested = FALSE]

\* the row written by the top-level handler, lines 403-407
HandlerRow(run, exc) ==
    [run EXCEPT !.status = FAILED,
                !.finished_at = now,
                !.duration_seconds = IF run.started_at # NULL THEN now - run.started_at ELSE NULL,
                !.error_message = exc]

\* except Exception, lines 399-410; when the publish of its own log fails the
\* exception leaves process_run and run_worker
Handler ==
    /\ wk.pc = "handler"
    /\ LET r == wk.run_id IN
       /\ runs' = SetRun(r, HandlerRow(runs[r], wk.exc))
       /\ logs' = AppendLogs(<<LogRow(r, "ERROR", "Unexpected failure")>>)
       /\ \E published \in BOOLEAN :
             wk' = IF published THEN WorkerIdle ELSE [WorkerIdle EXCEPT !.pc = "dead"]
    /\ UNCHANGED <<queue, audit, schedule, now, proc, resp, called, schedVars, slaVars, auxVars>>

(***************************************************************************)
(* Specification of the run lifecycle                                      *)
(***************************************************************************)
SchedulerIdle == [pc |-> "idle", now_utc |-> NULL, result |-> "none"]

SchedIdle ==
    /\ sch = [p \in Replicas |-> SchedulerIdle]
    /\ slock = Unlocked
    /\ sdue = <<>>

MonitorIdle == [pc |-> "idle", type |-> "NULL"]

SlaIdle ==
    /\ mon = [m \in Monitors |-> MonitorIdle]
    /\ alerts = <<>>

\* no append_log call in progress, no subscriber
LogWriterIdle ==
    [phase |-> "none", step |-> 0, cur |-> LogRow(NULL, "NULL", "NULL"), after |-> "none",
     exc |-> NoMessage, produced |-> 0]

LogIdle ==
    /\ chan = <<>>
    /\ lw = LogWriterIdle
    /\ lineq = <<>>
    /\ calls = <<>>
    /\ sub = [state |-> "closed", replay |-> <<>>]

\* no robot registered, no registry call made
CallerIdle ==
    [pc |-> "idle", step |-> 0, op |-> "none", robot_id |-> NULL,
     version_id |-> NULL, env_name |-> "NULL", trigger_type |-> "NULL",
     error |-> NoMessage, missing |-> {}, run_id |-> NULL]

RegIdle ==
    /\ robots = {}
    /\ versions = <<>>
    /\ rtags = <<>>
    /\ envs = {}
    /\ rc = CallerIdle

\* no field typed, _match_cron_field not called
CronIdle ==
    /\ cron = <<>>
    /\ cres = [kind |-> "none", out |-> <<>>]

\* no worker registered, no worker process started
OpsIdle ==
    /\ workers = <<>>
    /\ pool = <<>>
    /\ handed = <<>>
    /\ hbkeys = {}
    /\ slarules = <<>>
    /\ childenv = <<>>
    /\ cycle = <<>>

ExtIdle == RegIdle /\ CronIdle /\ OpsIdle

AuxIdle == LogIdle /\ ExtIdle

Init == RunInit /\ SchedIdle /\ SlaIdle /\ AuxIdle

Next ==
    \/ \E r \in DOMAIN runs, p \in Principals : CancelRun(r, p)
    \/ Tick
    \/ ChildExit
    \/ Lease
    \/ ProcessRunBegin
    \/ Prepare
    \/ Supervise
    \/ Finalize
    \/ RegisterArtifacts
    \/ ScheduleRetry
    \/ Handler

Spec == Init /\ [][Next]_vars


(***************************************************************************)
(* Properties of the run lifecycle                                         *)
(***************************************************************************)
\* process_run was called for r and has returned or raised
Finished(r) == r \in called /\ wk.run_id # r

\* the runs created as the retry of r
Children(r) == {x \in DOMAIN runs : runs[x].retry_of = r}

\* the top-level handler of process_run ran for r
HandlerRan(r) ==
    \E i \in DOMAIN logs : logs[i].run_id = r /\ logs[i].message = "Unexpected failure"

HasLog(r, message) ==
    \E i \in DOMAIN logs : logs[i].run_id = r /\ logs[i].message = message

CancelAudits(table, r) ==
    Cardinality({i \in DOMAIN table :
                    table[i].action = "run_cancel_requested" /\ table[i].target = r})

\* C1: once a run's persisted status is SUCCESS, FAILED or CANCELED, no later
\* step of any component changes it.
C1_StatusMonotonic ==
    [][\A r \in DOMAIN runs :
          runs[r].status \in Terminal => runs'[r].status = runs[r].status]_vars

\* C4: with retry_count = k a failing root run gets at most k RETRY runs over
\* the whole chain, every RETRY run has attempt = predecessor.attempt + 1, a run
\* has at most one retry, and no run has attempt > k + 1.
C4_RetryChainBound ==
    /\ Cardinality({x \in DOMAIN runs : runs[x].trigger_type = RETRY}) <= schedule.retry_count
    /\ \A x \in DOMAIN runs :
          /\ runs[x].attempt <= schedule.retry_count + 1
          /\ Cardinality(Children(x)) <= 1
          /\ runs[x].trigger_type = RETRY =>
                /\ runs[x].retry_of \in DOMAIN runs
                /\ runs[x].attempt = runs[runs[x].retry_of].attempt + 1

\* the chain is exhausted: the last allowed attempt failed too and process_run
\* returned without creating another run
C4_Witness ==
    /\ schedule.retry_count >= 1
    /\ \E x \in DOMAIN runs :
          /\ runs[x].trigger_type = RETRY
          /\ runs[x].attempt = schedule.retry_count + 1
          /\ runs[x].status = FAILED
          /\ runs[x].error_message = "Process returned exit code 1"
          /\ Finished(x)
          /\ wk.pc = "idle"

C6_CancelOnlyRunning ==
    [][/\ resp' # resp =>
             LET r == resp'.run_id
                 before == runs[r] IN
             /\ before.status = RUNNING =>
                   /\ resp'.code = 200
                   /\ runs'[r].cancel_requested
                   /\ runs'[r].status = RUNNING
                   /\ ~before.cancel_requested => runs'[r].canceled_by = UserOf(resp'.principal)
                   /\ \A x \in DOMAIN runs : x # r => runs'[x] = runs[x]
             /\ before.status = CANCELED =>
                   resp'.code = 200 /\ runs' = runs /\ audit' = audit
             /\ before.status \in {PENDING, SUCCESS, FAILED} =>
                   resp'.code = 409 /\ runs' = runs /\ audit' = audit
       /\ \A r \in DOMAIN runs :
             \/ runs'[r].cancel_requested # runs[r].cancel_requested
             \/ runs'[r].canceled_by # runs[r].canceled_by
             \/ (audit' # audit /\ CancelAudits(audit', r) # CancelAudits(audit, r))
             => /\ resp'.run_id = r
                /\ resp'.code = 200
                /\ runs[r].status = RUNNING]_vars

\* a PENDING run was answered 409 and is untouched
C6_Witness ==
    /\ resp.run_id # NULL
    /\ resp.code = 409
    /\ runs[resp.run_id].status = PENDING
    /\ ~runs[resp.run_id].cancel_requested

\* C7: a second cancel call on a RUNNING run whose cancel was already requested
\* answers 200 and leaves the Run row and the audit table as the first call
\* left them; a run has exactly one run_cancel_requested audit event when its
\* cancel was requested, none otherwise.
C7_CancelIdempotent ==
    [][/\ (resp' # resp /\ runs[resp'.run_id].status = RUNNING
                        /\ runs[resp'.run_id].cancel_requested) =>
             resp'.code = 200 /\ runs' = runs /\ audit' = audit
       /\ \A r \in DOMAIN runs' :
             CancelAudits(audit', r) = IF runs'[r].cancel_requested THEN 1 ELSE 0]_vars

\* alice's call set the request; the later call of the user-less principal was
\* answered 200 on the still RUNNING run and left canceled_by as it was
C7_Witness ==
    /\ resp.run_id # NULL
    /\ resp.code = 200
    /\ resp.principal = "svc"
    /\ runs[resp.run_id].status = RUNNING
    /\ runs[resp.run_id].cancel_requested
    /\ runs[resp.run_id].canceled_by = "alice"
    /\ CancelAudits(audit, resp.run_id) = 1

\* C8: a run whose cancel request was accepted (cancel_requested is only set
\* on a RUNNING run) ends as CANCELED with canceled_at set and error_message
\* null, after the log line "Execution canceled by user"; it does not end as
\* SUCCESS or FAILED. Stated for the runs whose process_run raised nothing.
C8_CancelOutcome ==
    \A r \in DOMAIN runs :
        (Finished(r) /\ runs[r].cancel_requested /\ ~HandlerRan(r)) =>
            /\ runs[r].status = CANCELED
            /\ runs[r].canceled_at # NULL
            /\ runs[r].error_message = NoMessage
            /\ HasLog(r, "Execution canceled by user")

\* C9: a run finalized as CANCELED never gets a RETRY run (and so no retry
\* message), whatever the schedule's retry_count.
C9_CanceledNeverRetried ==
    \A r \in DOMAIN runs :
        (runs[r].canceled_at # NULL \/ runs[r].status = CANCELED) =>
            /\ Children(r) = {}
            /\ \A i \in DOMAIN queue : runs[queue[i].run_id].retry_of # r

\* a scheduled run with retries left was canceled and process_run returned
C9_Witness ==
    \E r \in DOMAIN runs :
        /\ Finished(r)
        /\ runs[r].status = CANCELED
        /\ runs[r].schedule_id # NULL
        /\ runs[r].attempt <= schedule.retry_count
        /\ wk.pc = "idle"

\* the retry condition of the spec, on the Schedule row
RetryDue(run) ==
    /\ run.status = FAILED
    /\ run.schedule_id # NULL
    /\ run.attempt <= schedule.retry_count

C11_TimestampConsistency ==
    \A r \in DOMAIN runs :
        /\ runs[r].status = PENDING =>
               runs[r].started_at = NULL /\ runs[r].finished_at = NULL
        /\ runs[r].status \in Terminal =>
               /\ runs[r].finished_at # NULL
               /\ runs[r].started_at # NULL =>
                      runs[r].duration_seconds = runs[r].finished_at - runs[r].started_at
               /\ runs[r].started_at = NULL => runs[r].duration_seconds = NULL

\* a run that started, ran for a second or more and was failed by the handler
C11_Witness ==
    \E r \in DOMAIN runs :
        /\ runs[r].status = FAILED
        /\ HandlerRan(r)
        /\ runs[r].started_at # NULL
        /\ runs[r].finished_at > runs[r].started_at
        /\ runs[r].duration_seconds >= 1

\* C12: once cancel_requested is true on a Run row no step sets it back to
\* false on that row: further cancel calls, supervision, finalization, the
\* exception handler, retry creation.
C12_CancelRequestedMonotonic ==
    [][\A r \in DOMAIN runs :
          runs[r].cancel_requested => runs'[r].cancel_requested]_vars

\* the request outlived the finalization and the handler that followed it
C12_Witness ==
    \E r \in DOMAIN runs :
        /\ runs[r].cancel_requested
        /\ runs[r].canceled_at # NULL
        /\ HandlerRan(r)
        /\ Finished(r)

(***************************************************************************)
(* Scheduler loop: run_scheduler_cycle on several replicas, one store      *)
(* The engine is mssql+pyodbc: the dispatch lock is sp_getapplock, owned   *)
(* by the session's transaction and released by its commit or rollback.    *)
(* The schedule's cron_expr is due every minute and it has no window.      *)
(***************************************************************************)
MinuteOf(t) == t \div SecondsPerMinute

\* now_utc.replace(second=0), + timedelta(minutes=1): queued_at inside the minute of now_utc
AlreadyDispatchedThisMinute(schedule_id, now_utc) ==
    LET minute_start == MinuteOf(now_utc) * SecondsPerMinute
        minute_end == minute_start + SecondsPerMinute IN
    \E x \in DOMAIN runs :
        /\ runs[x].schedule_id = schedule_id
        /\ runs[x].trigger_type = SCHEDULED
        /\ runs[x].queued_at >= minute_start
        /\ runs[x].queued_at < minute_end

\* count of the robot's PENDING and RUNNING runs
ActiveRuns == Cardinality({x \in DOMAIN runs : runs[x].status \in {PENDING, RUNNING}})

SetSch(p, pc, now_utc, result) ==
    [sch EXCEPT ![p] = [pc |-> pc, now_utc |-> now_utc, result |-> result]]

\* run_scheduler_cycle is entered: now_utc is read once, the schedule is due
StartCycle(p) ==
    /\ sch[p].pc = "idle"
    /\ sch' = SetSch(p, "acquire", now, "none")
    /\ UNCHANGED <<runVars, slock, sdue, slaVars, auxVars>>

\* _acquire_robot_lock with @LockTimeout = 0: a held lock makes the cycle skip the schedule
AcquireRobotLock(p) ==
    /\ sch[p].pc = "acquire"
    /\ IF slock = Unlocked
       THEN /\ slock' = p
            /\ sch' = SetSch(p, "check", sch[p].now_utc, "none")
       ELSE /\ slock' = slock
            /\ sch' = SetSch(p, "idle", NULL, "lock_busy")
    /\ UNCHANGED <<runVars, sdue, slaVars, auxVars>>

\* the dedupe check and the concurrency gate; a skip runs the finally clause
CheckDispatch(p) ==
    /\ sch[p].pc = "check"
    /\ IF AlreadyDispatchedThisMinute(schedule.id, sch[p].now_utc)
       THEN /\ sch' = SetSch(p, "idle", NULL, "skipped_duplicate")
            /\ slock' = Unlocked
       ELSE IF ActiveRuns >= schedule.max_concurrency
       THEN /\ sch' = SetSch(p, "idle", NULL, "skipped_concurrency")
            /\ slock' = Unlocked
       ELSE /\ sch' = SetSch(p, "create", sch[p].now_utc, "none")
            /\ slock' = slock
    /\ UNCHANGED <<runVars, sdue, slaVars, auxVars>>

\* create_run_and_enqueue called by the cycle: the row takes queued_at from the
\* clock, its commit ends the transaction that owns the lock, then the message
\* is pushed and the audit event written. "version": ValueError, no row.
\* "lpush": the broker fails after the commit.
DispatchRun(p) ==
    /\ sch[p].pc = "create"
    /\ slock' = Unlocked
    /\ \E outcome \in {"ok", "version", "lpush"} :
          LET new == Len(runs) + 1 IN
          IF outcome = "version"
          THEN /\ sch' = SetSch(p, "idle", NULL, "failed")
               /\ UNCHANGED <<runs, queue, audit, sdue>>
          ELSE /\ runs' = Append(runs, NewRun(SCHEDULED, 1, schedule.id, NULL, "PROD", NULL, now))
               /\ sdue' = Append(sdue, sch[p].now_utc)
               /\ IF outcome = "ok"
                  THEN /\ queue' = <<Message(new, NULL)>> \o queue
                       /\ audit' = Append(audit, [action |-> "schedule.dispatched",
                                                   target |-> new, actor |-> NoUser])
                       /\ sch' = SetSch(p, "idle", NULL, "dispatched")
                  ELSE /\ sch' = SetSch(p, "idle", NULL, "failed")
                       /\ UNCHANGED <<queue, audit>>
    /\ UNCHANGED <<logs, schedule, now, wk, proc, resp, called, slaVars, auxVars>>

\* the clock of the store and of the replicas
SchedTick ==
    /\ now < SecondsPerMinute + MaxTime - 1
    /\ now' = now + 1
    /\ UNCHANGED <<runs, queue, logs, audit, schedule, wk, proc, resp, called, schedVars, slaVars, auxVars>>

\* no run yet, the replicas sleep, one second before the end of a minute
InitSched ==
    /\ schedule \in ScheduleRows({0}, 1..MaxConcurrency)
    /\ runs = <<>>
    /\ queue = <<>>
    /\ logs = <<>>
    /\ audit = <<>>
    /\ now = SecondsPerMinute - 1
    /\ wk = WorkerIdle
    /\ proc = [state |-> "none", code |-> NULL]
    /\ resp = [run_id |-> NULL, code |-> NULL, principal |-> NoUser]
    /\ called = {}
    /\ SchedIdle
    /\ SlaIdle
    /\ AuxIdle

NextSched ==
    \/ \E p \in Replicas : StartCycle(p)
    \/ \E p \in Replicas : AcquireRobotLock(p)
    \/ \E p \in Replicas : CheckDispatch(p)
    \/ \E p \in Replicas : DispatchRun(p)
    \/ SchedTick

SpecSched == InitSched /\ [][NextSched]_vars

\* C2: for one Schedule and one minute at most one SCHEDULED run is created,
\* whatever the number of replicas and ticks: no two SCHEDULED runs of the
\* schedule were dispatched by cycles of the same minute and queued in the
\* same minute.
C2_PerMinuteDedupe ==
    \A x, y \in DOMAIN sdue :
        (/\ x # y
         /\ runs[x].trigger_type = SCHEDULED
         /\ runs[y].trigger_type = SCHEDULED
         /\ runs[x].schedule_id = runs[y].schedule_id
         /\ MinuteOf(sdue[x]) = MinuteOf(sdue[y]))
        => MinuteOf(runs[x].queued_at) # MinuteOf(runs[y].queued_at)

(***************************************************************************)
(* SLA monitor: create_alert_if_needed on several replicas, resolve_alert  *)
(***************************************************************************)
OpenAlerts(robot_id, type) ==
    {i \in DOMAIN alerts :
        /\ alerts[i].robot_id = robot_id
        /\ alerts[i].type = type
        /\ alerts[i].resolved_at = NULL}

\* the monitor cycle found the condition of an alert type and calls
\* create_alert_if_needed: the select of the open alert
SelectOpenAlert(m, type) ==
    /\ mon[m].pc = "idle"
    /\ Len(alerts) + Cardinality({k \in Monitors : mon[k].pc = "insert"}) < MaxAlerts
    /\ mon' = IF OpenAlerts(1, type) # {}
              THEN mon
              ELSE [mon EXCEPT ![m] = [pc |-> "insert", type |-> type]]
    /\ UNCHANGED <<runVars, schedVars, alerts, auxVars>>

\* db.add(alert), commit, audit event alert.created
InsertAlert(m) ==
    /\ mon[m].pc = "insert"
    /\ alerts' = Append(alerts, [robot_id |-> 1, type |-> mon[m].type, resolved_at |-> NULL])
    /\ audit' = Append(audit, [action |-> "alert.created", target |-> Len(alerts) + 1,
                                actor |-> NoUser])
    /\ mon' = [mon EXCEPT ![m] = MonitorIdle]
    /\ UNCHANGED <<runs, queue, logs, schedule, now, wk, proc, resp, called, schedVars, auxVars>>

ResolveAlert(i) ==
    /\ i \in DOMAIN alerts
    /\ alerts' = IF alerts[i].resolved_at = NULL
                 THEN [alerts EXCEPT ![i].resolved_at = now]
                 ELSE alerts
    /\ UNCHANGED <<runVars, schedVars, mon, auxVars>>

NextSla ==
    \/ \E m \in Monitors, type \in AlertTypes : SelectOpenAlert(m, type)
    \/ \E m \in Monitors : InsertAlert(m)
    \/ \E i \in DOMAIN alerts : ResolveAlert(i)

\* no alert yet, the monitors sleep
InitSla ==
    /\ schedule \in ScheduleRows({0}, {1})
    /\ runs = <<>>
    /\ queue = <<>>
    /\ logs = <<>>
    /\ audit = <<>>
    /\ now = 0
    /\ wk = WorkerIdle
    /\ proc = [state |-> "none", code |-> NULL]
    /\ resp = [run_id |-> NULL, code |-> NULL, principal |-> NoUser]
    /\ called = {}
    /\ SchedIdle
    /\ SlaIdle
    /\ AuxIdle

SpecSla == InitSla /\ [][NextSla]_vars

\* C3: in every reachable state there is at most one unresolved alert for
\* every (robot, alert type) pair, with several monitor replicas in
\* create_alert_if_needed at once and resolve_alert calls in between.
C3_OneUnresolvedAlert ==
    \A type \in AlertTypes : Cardinality(OpenAlerts(1, type)) <= 1


(***************************************************************************)
(* Log pipeline: append_log step by step (commit, then publish), the       *)
(* supervision loop feeding it from line_queue, and the replay of the      *)
(* stream endpoint. Here the commit of a log row can fail as well.         *)
(***************************************************************************)
Min(a, b) == IF a <= b THEN a ELSE b

\* mutant: the frame goes out before the row is committed
AppendLogSteps_PublishFirst == <<"publish", "commit">>

\* the statements of append_log, in order
AppendLogSteps == <<"commit", "publish">>

\* the caller of append_log is hit by an exception: process_run's handler
\* catches it, an exception inside the handler leaves process_run
RaiseInLog(exc) ==
    [lw EXCEPT !.step = 0,
               !.exc = exc,
               !.phase = IF lw.phase = "handler" THEN "dead" ELSE "handler"]

\* the rows of one run in id order
RunRows(table, run_id) == SelectSeq(table, LAMBDA row : row.run_id = run_id)

\* get_run_logs: order_by(RunLog.id.asc()).limit(limit)
GetRunLogs(run_id, limit) ==
    LET rows == RunRows(logs, run_id) IN
    SubSeq(rows, 1, Min(limit, Len(rows)))

\* stdout / stderr reader thread: a line of the child goes to line_queue
ChildWrites(level) ==
    /\ lw.phase = "loop"
    /\ lw.produced < MaxLines
    /\ lineq' = Append(lineq, [level |-> level, message |-> ToString(lw.produced + 1)])
    /\ lw' = [lw EXCEPT !.produced = lw.produced + 1]
    /\ UNCHANGED <<runVars, schedVars, slaVars, extVars, chan, calls, sub>>

\* append_log is entered with a row; after is the caller's position on return
CallAppendLog(row, after) ==
    /\ lw' = [lw EXCEPT !.step = 1, !.cur = row, !.after = after]
    /\ calls' = Append(calls, row)

\* process_run reaches its next append_log: the start-up line, a dequeued
\* child line, the final line once the child has ended (exit code 0) and
\* line_queue is empty, or the handler's line after the handler's own commit
NextAppend ==
    /\ lw.step = 0
    /\ CASE lw.phase = "startup" ->
                /\ CallAppendLog(LogRow(1, "INFO", "Execution started."), "loop")
                /\ UNCHANGED <<runs, lineq>>
         [] lw.phase = "loop" /\ lineq # <<>> ->
                /\ CallAppendLog(LogRow(1, Head(lineq).level, Head(lineq).message), "loop")
                /\ lineq' = Tail(lineq)
                /\ UNCHANGED runs
         [] lw.phase = "loop" /\ lineq = <<>> ->
                /\ lw.produced > 0
                /\ CallAppendLog(FinalLog(1, FinalStatus(FALSE, FALSE, 0)), "done")
                /\ UNCHANGED <<runs, lineq>>
         [] lw.phase = "handler" ->
                /\ \E ok \in BOOLEAN :
                      IF ok
                      THEN /\ runs' = SetRun(1, HandlerRow(runs[1], lw.exc))
                           /\ CallAppendLog(LogRow(1, "ERROR", "Unexpected failure"), "done")
                      ELSE /\ lw' = RaiseInLog("OperationalError")
                           /\ UNCHANGED <<runs, calls>>
                /\ UNCHANGED lineq
         [] OTHER -> FALSE
    /\ UNCHANGED <<queue, logs, audit, schedule, now, wk, proc, resp, called,
                   schedVars, slaVars, extVars, chan, sub>>

\* append_log: db.add + db.commit; the commit of the final line carries the
\* finalization of the Run row
AppendLogCommit ==
    /\ lw.step \in DOMAIN AppendLogSteps
    /\ AppendLogSteps[lw.step] = "commit"
    /\ \E ok \in BOOLEAN :
          IF ok
          THEN /\ logs' = AppendLogs(<<lw.cur>>)
               /\ lw' = [lw EXCEPT !.step = lw.step + 1]
               /\ runs' = IF lw.phase = "loop" /\ lw.after = "done"
                          THEN SetRun(1, [runs[1] EXCEPT
                                            !.status = FinalStatus(FALSE, FALSE, 0).status,
                                            !.finished_at = now,
                                            !.duration_seconds = now - runs[1].started_at])
                          ELSE runs
          ELSE /\ lw' = RaiseInLog("OperationalError")
               /\ UNCHANGED <<logs, runs>>
    /\ UNCHANGED <<queue, audit, schedule, now, wk, proc, resp, called,
                   schedVars, slaVars, extVars, chan, lineq, calls, sub>>

\* append_log: redis.publish on the run's channel
AppendLogPublish ==
    /\ lw.step \in DOMAIN AppendLogSteps
    /\ AppendLogSteps[lw.step] = "publish"
    /\ \E ok \in BOOLEAN :
          IF ok
          THEN /\ chan' = Append(chan, lw.cur)
               /\ lw' = [lw EXCEPT !.step = lw.step + 1]
          ELSE /\ chan' = chan
               /\ lw' = RaiseInLog("ConnectionError")
    /\ UNCHANGED <<runVars, schedVars, slaVars, extVars, lineq, calls, sub>>

\* append_log returns to its caller
AppendLogReturn ==
    /\ lw.step = Len(AppendLogSteps) + 1
    /\ lw' = [lw EXCEPT !.step = 0, !.phase = lw.after]
    /\ UNCHANGED <<runVars, schedVars, slaVars, extVars, chan, lineq, calls, sub>>

\* another worker persists and publishes a line of another run
OtherRunLog ==
    /\ RunRows(logs, 2) = <<>>
    /\ logs' = AppendLogs(<<LogRow(2, "INFO", "Execution started.")>>)
    /\ chan' = Append(chan, LogRow(2, "INFO", "Execution started."))
    /\ UNCHANGED <<runs, queue, audit, schedule, now, wk, proc, resp, called,
                   schedVars, slaVars, extVars, lw, lineq, calls, sub>>

\* run_log_stream: after accept the endpoint sends get_run_logs(limit) as replay
Attach ==
    /\ sub.state = "closed"
    /\ sub' = [state |-> "replayed", replay |-> GetRunLogs(1, ReplayLimit)]
    /\ UNCHANGED <<runVars, schedVars, slaVars, extVars, chan, lw, lineq, calls>>

\* the subscriber goes away
Detach ==
    /\ sub.state = "replayed"
    /\ sub' = [state |-> "closed", replay |-> <<>>]
    /\ UNCHANGED <<runVars, schedVars, slaVars, extVars, chan, lw, lineq, calls>>

\* process_run of run 1 has set it to RUNNING and is about to log
InitLog ==
    /\ schedule \in ScheduleRows({0}, {1})
    /\ runs = <<[NewRun(MANUAL, 1, NULL, NULL, "PROD", NULL, 0)
                    EXCEPT !.status = RUNNING, !.started_at = 0]>>
    /\ queue = <<>>
    /\ logs = <<>>
    /\ audit = <<>>
    /\ now = 0
    /\ wk = WorkerIdle
    /\ proc = [state |-> "none", code |-> NULL]
    /\ resp = [run_id |-> NULL, code |-> NULL, principal |-> NoUser]
    /\ called = {}
    /\ SchedIdle
    /\ SlaIdle
    /\ chan = <<>>
    /\ lw = [LogWriterIdle EXCEPT !.phase = "startup"]
    /\ lineq = <<>>
    /\ calls = <<>>
    /\ sub = [state |-> "closed", replay |-> <<>>]
    /\ ExtIdle

NextLog ==
    \/ \E level \in {"INFO", "ERROR"} : ChildWrites(level)
    \/ NextAppend
    \/ AppendLogCommit
    \/ AppendLogPublish
    \/ AppendLogReturn
    \/ OtherRunLog
    \/ Attach
    \/ Detach

SpecLog == InitLog /\ [][NextLog]_vars


\* the step at hand is the publish of append_log
AtPublish ==
    /\ lw.step \in DOMAIN AppendLogSteps
    /\ AppendLogSteps[lw.step] = "publish"

\* C13: a publish failure inside append_log, after the row was committed, is
\* swallowed: append_log goes on to return normally, the row stays persisted
\* and the caller's execution and the Run row are as after a successful publish.
C13_PublishFailureSwallowed ==
    [][(AtPublish /\ lw'.step # lw.step /\ chan' = chan) =>
           /\ lw'.step = lw.step + 1
           /\ lw'.phase = lw.phase
           /\ lw'.exc = lw.exc
           /\ logs' = logs
           /\ runs' = runs]_vars

\* C14: every frame published on a run's channel is a persisted RunLog row of
\* that run: the publish comes after the commit, and a row whose commit failed
\* is never published.
C14_PersistBeforePublish ==
    \A i \in DOMAIN chan :
        \E j \in DOMAIN logs : logs[j] = chan[i]

\* frames were published, then the commit of a later row failed: that row is
\* neither persisted nor published
C14_Witness ==
    /\ lw.exc = "OperationalError"
    /\ lw.cur.run_id = 1
    /\ Len(RunRows(chan, 1)) >= 2
    /\ \A j \in DOMAIN logs : logs[j] # lw.cur
    /\ \A i \in DOMAIN chan : chan[i] # lw.cur

\* position in the call order of append_log
CallIndex(row) == CHOOSE k \in DOMAIN calls : calls[k] = row

\* the rows of the sequence were passed to append_log, in this order
InCallOrder(rows) ==
    /\ \A i \in DOMAIN rows : \E k \in DOMAIN calls : calls[k] = rows[i]
    /\ \A i, j \in DOMAIN rows : i < j => CallIndex(rows[i]) < CallIndex(rows[j])

\* C15: for a run, the id order of its persisted RunLog rows is the order in
\* which the owning worker called append_log (start-up line, child lines as
\* dequeued, final line), and the publish order on its channel is that order.
C15_LogOrder ==
    /\ InCallOrder(RunRows(logs, 1))
    /\ InCallOrder(RunRows(chan, 1))

\* the run ended: start-up line, stdout and stderr lines, final line, all
\* persisted and published, with a row of another run in between
C15_Witness ==
    /\ lw.phase = "done"
    /\ runs[1].status = SUCCESS
    /\ Len(calls) >= 4
    /\ RunRows(logs, 1) = calls
    /\ RunRows(chan, 1) = calls
    /\ \E i, j \in DOMAIN calls : calls[i].level = "ERROR" /\ calls[j].level = "INFO" /\ 1 < j /\ i < j
    /\ \E i \in DOMAIN logs : logs[i].run_id = 2 /\ 1 < i /\ i < Len(logs)

\* the newest rows of a run, oldest first
NewestRunLogs(run_id, limit) ==
    LET rows == RunRows(logs, run_id) IN
    SubSeq(rows, Len(rows) - Min(limit, Len(rows)) + 1, Len(rows))

\* C16: a subscriber that attaches is first sent the last N persisted rows of
\* the run in ascending id order; with more than N rows these are the N most
\* recent ones.
C16_ReplayLastRows ==
    [][(sub.state = "closed" /\ sub'.state = "replayed") =>
           sub'.replay = NewestRunLogs(1, ReplayLimit)]_vars


(***************************************************************************)
(* Robot registry and run creation (SpecReg): create_robot,                *)
(* add_robot_version, publish_robot_version, activate_robot_version, the   *)
(* env store, create_run_and_enqueue statement by statement and the retry  *)
(* creation of _schedule_retry_if_needed.  Every registry call is one      *)
(* transaction, calls are serialized by the store.                         *)
(***************************************************************************)
RobotIds == {1, 2}
\* payload.version: two labels that match SEMVER_REGEX and one that does not
VersionLabels == {"1.0.0", "1.1.0", "latest"}
Channels == {"stable", "beta"}
EnvKeys == {"API_TOKEN", "DB_URL"}
\* required_env of the robot.yaml inside a published artifact
RequiredSets == {{}, EnvKeys}
AllowedEnvNames == {"PROD", "HML", "TEST"}
\* the robots whose env store the clients edit
EnvRobots == {1}
\* payload.env_name as sent by a client
EnvInputs == {"prod", "DEV"}

is_valid_semver(version) == version \in {"1.0.0", "1.1.0"}

\* (env_name or "").strip().upper()
EnvUpper(env_name) == IF env_name = "prod" THEN "PROD" ELSE env_name

\* RobotVersion(...); required_env_keys_json is what the publish endpoint
\* extracts from the artifact, [] by default
NewVersion(robot_id, version, channel, is_active, required) ==
    [robot_id |-> robot_id, version |-> version, channel |-> channel,
     is_active |-> is_active, required_env_keys_json |-> required]

VersionsOf(table, robot_id) == {i \in DOMAIN table : table[i].robot_id = robot_id}

ActiveVersions(table, robot_id) == {i \in VersionsOf(table, robot_id) : table[i].is_active}

\* mutant: the update that clears is_active is missing
DeactivateAll_Missing(table, robot_id) == table

\* db.query(RobotVersion).filter(robot_id == robot_id).update({is_active: False})
DeactivateAll(table, robot_id) ==
    [i \in DOMAIN table |->
        IF table[i].robot_id = robot_id THEN [table[i] EXCEPT !.is_active = FALSE] ELSE table[i]]

\* _set_release_tag
SetReleaseTag(tags, robot_id, tag, version_id) ==
    [k \in DOMAIN tags \cup {<<robot_id, tag>>} |->
        IF k = <<robot_id, tag>> THEN version_id ELSE tags[k]]

\* "latest" always, "stable" when the channel is stable
TagActivated(tags, robot_id, channel, version_id) ==
    LET latest == SetReleaseTag(tags, robot_id, "latest", version_id) IN
    IF channel = "stable" THEN SetReleaseTag(latest, robot_id, "stable", version_id) ELSE latest

\* the caller after create_run_and_enqueue has returned run_id or raised error
Returned(run_id, error, missing) ==
    [CallerIdle EXCEPT !.op = "create_run", !.run_id = run_id, !.error = error, !.missing = missing]

\* the checks shared by add_robot_version and publish_robot_version
VersionError(robot_id, version) ==
    IF robot_id \notin robots THEN "Robot not found."
    ELSE IF ~is_valid_semver(version) THEN "Invalid semver."
    ELSE IF \E i \in VersionsOf(versions, robot_id) : versions[i].version = version
         THEN "Version already exists for this robot."
    ELSE NoMessage

CreateRobot(robot_id, version, channel) ==
    /\ robot_id \notin robots
    /\ Len(versions) < MaxVersions
    /\ LET id == Len(versions) + 1 IN
       /\ robots' = robots \cup {robot_id}
       /\ versions' = Append(versions, NewVersion(robot_id, version, channel, TRUE, {}))
       /\ rtags' = SetReleaseTag(SetReleaseTag(rtags, robot_id, "latest", id), robot_id, "stable", id)
    /\ UNCHANGED <<runVars, schedVars, slaVars, logVars, cronVars, opsVars, envs, rc>>

AddRobotVersion(robot_id, version, channel, is_active) ==
    /\ Len(versions) < MaxVersions
    /\ LET error == VersionError(robot_id, version)
           id == Len(versions) + 1 IN
       IF error # NoMessage
       THEN UNCHANGED <<versions, rtags>>
       ELSE /\ versions' = Append(IF is_active THEN DeactivateAll(versions, robot_id) ELSE versions,
                                  NewVersion(robot_id, version, channel, is_active, {}))
            /\ rtags' = IF is_active THEN TagActivated(rtags, robot_id, channel, id) ELSE rtags
    /\ UNCHANGED <<runVars, schedVars, slaVars, logVars, cronVars, opsVars, robots, envs, rc>>

PublishRobotVersion(robot_id, version, channel, required) ==
    /\ Len(versions) < MaxVersions
    /\ LET error == VersionError(robot_id, version)
           id == Len(versions) + 1 IN
       IF error # NoMessage
       THEN UNCHANGED <<versions, rtags>>
       ELSE /\ versions' = Append(DeactivateAll(versions, robot_id),
                                  NewVersion(robot_id, version, channel, TRUE, required))
            /\ rtags' = TagActivated(rtags, robot_id, channel, id)
    /\ UNCHANGED <<runVars, schedVars, slaVars, logVars, cronVars, opsVars, robots, envs, rc>>

ActivateRobotVersion(robot_id, version_id) ==
    /\ IF version_id \notin VersionsOf(versions, robot_id)
       THEN UNCHANGED <<versions, rtags>>
       ELSE /\ versions' = [DeactivateAll(versions, robot_id) EXCEPT ![version_id].is_active = TRUE]
            /\ rtags' = TagActivated(rtags, robot_id, versions[version_id].channel, version_id)
    /\ UNCHANGED <<runVars, schedVars, slaVars, logVars, cronVars, opsVars, robots, envs, rc>>

\* upsert_env_vars with one item that carries a value
UpsertEnvVar(robot_id, env_name, key) ==
    /\ LET env == EnvUpper(env_name)
           error == IF env \notin AllowedEnvNames THEN "env must be one of: PROD, HML, TEST."
                    ELSE IF robot_id \notin robots THEN "Robot not found."
                    ELSE NoMessage IN
       /\ envs' = IF error = NoMessage THEN envs \cup {<<robot_id, env, key>>} ELSE envs
    /\ UNCHANGED <<runVars, schedVars, slaVars, logVars, cronVars, opsVars, robots, versions, rtags, rc>>

DeleteEnvVar(robot_id, env_name, key) ==
    /\ LET env == EnvUpper(env_name)
           error == IF env \notin AllowedEnvNames THEN "env must be one of: PROD, HML, TEST."
                    ELSE IF robot_id \notin robots THEN "Robot not found."
                    ELSE IF <<robot_id, env, key>> \notin envs THEN "Env key not found."
                    ELSE NoMessage IN
       /\ envs' = IF error = NoMessage THEN envs \ {<<robot_id, env, key>>} ELSE envs
    /\ UNCHANGED <<runVars, schedVars, slaVars, logVars, cronVars, opsVars, robots, versions, rtags, rc>>

\* the greatest element of a non-empty set of ids
MaxOf(S) == CHOOSE x \in S : \A y \in S : y <= x

\* mutant: the requested version is looked up by its id alone
ResolveRobotVersion_AnyRobot(robot_id, requested_version_id) ==
    IF requested_version_id # NULL
    THEN IF requested_version_id \in DOMAIN versions THEN requested_version_id ELSE NULL
    ELSE IF ActiveVersions(versions, robot_id) = {} THEN NULL
         ELSE MaxOf(ActiveVersions(versions, robot_id))

\* _resolve_robot_version: the requested version if it is one of the robot's,
\* else the active version created last; NULL stands for the ValueError
ResolveRobotVersion(robot_id, requested_version_id) ==
    IF requested_version_id # NULL
    THEN IF requested_version_id \in VersionsOf(versions, robot_id) THEN requested_version_id ELSE NULL
    ELSE IF ActiveVersions(versions, robot_id) = {} THEN NULL
         ELSE MaxOf(ActiveVersions(versions, robot_id))

\* list_defined_env_keys
ListDefinedEnvKeys(robot_id, env_name) == {key \in EnvKeys : <<robot_id, env_name, key>> \in envs}

\* _validate_required_env_keys: the keys the ValueError lists
MissingEnvKeys(robot_id, env_name, required_keys) ==
    required_keys \ ListDefinedEnvKeys(robot_id, env_name)

\* mutant: the message is pushed before the row is committed
CreateRunSteps_EnqueueFirst == <<"enqueue", "commit">>

\* create_run_and_enqueue after the preflight: db.commit(), then enqueue_run
CreateRunSteps == <<"commit", "enqueue">>

\* the Run row of create_run_and_enqueue and _schedule_retry_if_needed with
\* the two columns the registry decides
RegRun(run, robot_id, robot_version_id) ==
    run @@ [robot_id |-> robot_id, robot_version_id |-> robot_version_id]

\* create_run_and_enqueue, lines 43-45: resolve the version, normalize the
\* env name, validate the required keys; the first failure raises ValueError
CreateRun(robot_id, requested_version_id, env_name, trigger_type) ==
    /\ rc.pc = "idle"
    /\ Len(runs) < MaxRuns
    /\ trigger_type = SCHEDULED => robot_id = 1
    /\ LET version_id == ResolveRobotVersion(robot_id, requested_version_id)
           env == EnvUpper(env_name) IN
       rc' = IF version_id = NULL
             THEN Returned(NULL, "Robot version not found for execution.", {})
             ELSE IF env \notin AllowedEnvNames
             THEN Returned(NULL, "env must be one of: PROD, HML, TEST.", {})
             ELSE LET missing == MissingEnvKeys(robot_id, env, versions[version_id].required_env_keys_json) IN
                  IF missing # {}
                  THEN Returned(NULL, "Missing required env vars", missing)
                  ELSE [CallerIdle EXCEPT !.op = "create_run", !.robot_id = robot_id,
                                          !.version_id = version_id, !.env_name = env,
                                          !.trigger_type = trigger_type,
                                          !.step = 1, !.pc = CreateRunSteps[1]]
    /\ UNCHANGED <<runVars, schedVars, slaVars, logVars, cronVars, opsVars, robots, versions, rtags, envs>>

\* the caller after step rc.step of CreateRunSteps
AfterStep(call) ==
    IF call.step < Len(CreateRunSteps)
    THEN [call EXCEPT !.step = call.step + 1, !.pc = CreateRunSteps[call.step + 1]]
    ELSE Returned(call.run_id, NoMessage, {})

\* db.add(run); db.commit(); db.refresh(run)
CommitRun ==
    /\ rc.pc = "commit"
    /\ Len(runs) < MaxRuns
    /\ LET run == NewRun(rc.trigger_type, 1,
                         IF rc.trigger_type = SCHEDULED THEN schedule.id ELSE NULL,
                         NULL, rc.env_name, NULL, now) IN
       /\ runs' = Append(runs, RegRun(run, rc.robot_id, rc.version_id))
       /\ rc' = AfterStep([rc EXCEPT !.run_id = Len(runs) + 1])
    /\ UNCHANGED <<queue, logs, audit, schedule, now, wk, proc, resp, called,
                   schedVars, slaVars, logVars, cronVars, opsVars, robots, versions, rtags, envs>>

\* enqueue_run: lpush, then llen for the gauge; either can raise
EnqueueRun ==
    /\ rc.pc = "enqueue"
    /\ LET run_id == IF rc.run_id = NULL THEN Len(runs) + 1 ELSE rc.run_id IN
       \E outcome \in {"ok", "lpush", "llen"} :
          /\ queue' = IF outcome = "lpush" THEN queue ELSE <<Message(run_id, NULL)>> \o queue
          /\ rc' = IF outcome = "ok" THEN AfterStep(rc)
                   ELSE Returned(rc.run_id, "ConnectionError", {})
    /\ UNCHANGED <<runs, logs, audit, schedule, now, wk, proc, resp, called,
                   schedVars, slaVars, logVars, cronVars, opsVars, robots, versions, rtags, envs>>

\* run_worker and process_run as the registry sees them: brpop, the
\* not_before_ts test, then the run taken to SUCCESS or FAILED; the steps in
\* between are those of Spec.  A message without a row is logged and dropped.
ProcessRun ==
    /\ wk.pc = "idle"
    /\ queue # <<>>
    /\ LET msg == queue[Len(queue)]
           rest == SubSeq(queue, 1, Len(queue) - 1)
           r == msg.run_id IN
       IF msg.not_before_ts # NULL /\ now < msg.not_before_ts
       THEN /\ queue' = Append(rest, msg)
            /\ UNCHANGED <<runs, wk>>
       ELSE IF r \notin DOMAIN runs
       THEN /\ queue' = rest
            /\ UNCHANGED <<runs, wk>>
       ELSE /\ queue' = rest
            /\ \E status \in {SUCCESS, FAILED} :
                  runs' = SetRun(r, [runs[r] EXCEPT !.status = status, !.started_at = now,
                                                    !.finished_at = now, !.duration_seconds = 0])
            /\ LET has_schedule == runs[r].schedule_id # NULL IN
               wk' = [WorkerIdle EXCEPT !.pc = "retry", !.run_id = r,
                                        !.has_schedule = has_schedule,
                                        !.retry_count = IF has_schedule THEN schedule.retry_count ELSE 0,
                                        !.retry_backoff_seconds =
                                            IF has_schedule THEN schedule.retry_backoff_seconds
                                            ELSE MinBackoff]
    /\ UNCHANGED <<logs, audit, schedule, now, proc, resp, called, schedVars, slaVars, logVars, regVars, cronVars, opsVars>>

\* _schedule_retry_if_needed up to db.commit(): the early returns, then the
\* retry row
RetryCommit ==
    /\ wk.pc = "retry"
    /\ LET r == wk.run_id
           run == runs[r] IN
       IF ~RetryNeeded(run, wk.has_schedule, wk.retry_count)
       THEN /\ wk' = WorkerIdle
            /\ runs' = runs
       ELSE /\ Len(runs) < MaxRuns
            /\ runs' = Append(runs, RegRun(RetryRun(run, r), run.robot_id, run.robot_version_id))
            /\ wk' = [wk EXCEPT !.pc = "retry_push"]
    /\ UNCHANGED <<queue, logs, audit, schedule, now, proc, resp, called, schedVars, slaVars, logVars, regVars, cronVars, opsVars>>

\* _schedule_retry_if_needed after the commit: redis.lpush, then
\* refresh_queue_depth_sync and the "Retry scheduled" log; when one of the
\* first two raises, the handler of process_run rewrites the failed run
RetryPush ==
    /\ wk.pc = "retry_push"
    /\ LET r == wk.run_id
           retry_id == CHOOSE i \in DOMAIN runs : runs[i].retry_of = r IN
       \E outcome \in {"ok", "lpush", "llen"} :
          /\ queue' = IF outcome = "lpush" THEN queue
                      ELSE <<Message(retry_id, RetryNotBefore(wk.retry_backoff_seconds))>> \o queue
          /\ runs' = IF outcome = "ok" THEN runs
                     ELSE SetRun(r, HandlerRow(runs[r], "ConnectionError"))
          /\ logs' = IF outcome = "ok" THEN AppendLogs(<<LogRow(r, "WARN", "Retry scheduled")>>)
                     ELSE AppendLogs(<<LogRow(r, "ERROR", "Unexpected failure")>>)
    /\ wk' = WorkerIdle
    /\ UNCHANGED <<audit, schedule, now, proc, resp, called, schedVars, slaVars, logVars, regVars, cronVars, opsVars>>

\* an empty registry
InitReg ==
    /\ schedule \in ScheduleRows({0}, {1})
    /\ runs = <<>>
    /\ queue = <<>>
    /\ logs = <<>>
    /\ audit = <<>>
    /\ now = 0
    /\ wk = WorkerIdle
    /\ proc = [state |-> "none", code |-> NULL]
    /\ resp = [run_id |-> NULL, code |-> NULL, principal |-> NoUser]
    /\ called = {}
    /\ SchedIdle
    /\ SlaIdle
    /\ AuxIdle

NextReg ==
    \/ \E robot_id \in RobotIds, version \in {"1.0.0", "1.1.0"}, channel \in Channels :
          CreateRobot(robot_id, version, channel)
    \/ \E robot_id \in RobotIds, version \in VersionLabels, channel \in Channels, is_active \in BOOLEAN :
          AddRobotVersion(robot_id, version, channel, is_active)
    \/ \E robot_id \in RobotIds, version \in VersionLabels, channel \in Channels,
          required \in RequiredSets :
          PublishRobotVersion(robot_id, version, channel, required)
    \/ \E robot_id \in RobotIds, version_id \in 1..MaxVersions :
          ActivateRobotVersion(robot_id, version_id)

SpecReg == InitReg /\ [][NextReg]_vars

\* C17: in every state reached by create_robot, add_robot_version,
\* publish_robot_version and activate_robot_version calls, each one commit,
\* every robot has at most one version with is_active = TRUE: the commit that
\* makes a version active leaves no other version of that robot active.
C17_SingleActiveVersion ==
    \A robot_id \in RobotIds : Cardinality(ActiveVersions(versions, robot_id)) <= 1

\* a published version, active when it was published, is inactive and an
\* older version of the same robot is the active one: activate_robot_version
\* has switched the robot back
C17_Witness ==
    \E robot_id \in robots :
       \E i, j \in VersionsOf(versions, robot_id) :
          /\ i < j
          /\ versions[j].required_env_keys_json # {}
          /\ ~versions[j].is_active
          /\ ActiveVersions(versions, robot_id) = {i}

\* the run ids the messages in the queue carry
Enqueued == {queue[i].run_id : i \in DOMAIN queue}

\* a step of enqueue_run or of the retry's lpush that fails before the push
PushFailed ==
    /\ \/ rc.pc = "enqueue" /\ rc'.pc = "idle"
       \/ wk.pc = "retry_push" /\ wk'.pc = "idle"
    /\ queue' = queue

\* the run whose message the step in progress is about to push
Pushing ==
    IF rc.pc = "enqueue" /\ rc'.pc = "idle" THEN rc.run_id
    ELSE CHOOSE i \in DOMAIN runs : runs[i].retry_of = wk.run_id

VersionToRun(robot_id, requested) ==
    IF requested # NULL THEN requested
    ELSE CHOOSE i \in DOMAIN versions : versions[i].robot_id = robot_id /\ versions[i].is_active

\* the requested version is not one of the robot's, or none is requested and
\* the robot has no active version
NoVersion(robot_id, requested) ==
    IF requested # NULL
    THEN ~(requested \in DOMAIN versions /\ versions[requested].robot_id = robot_id)
    ELSE ~\E i \in DOMAIN versions : versions[i].robot_id = robot_id /\ versions[i].is_active

\* the required keys of the version that have no value in the env store
KeysWithoutValue(robot_id, requested, env) ==
    {key \in versions[VersionToRun(robot_id, requested)].required_env_keys_json :
        <<robot_id, env, key>> \notin envs}

\* the preflight of a call with an env_name of the enumeration: either it
\* fails, names the missing keys, and leaves runs and queue alone, or it
\* passes and the call goes on
PreflightAllOrNothing ==
    \A robot_id \in RobotIds, requested \in {NULL} \cup 1..Len(versions) + 1,
       env_name \in {e \in EnvInputs : EnvUpper(e) \in AllowedEnvNames},
       trigger_type \in {MANUAL, SCHEDULED} :
       CreateRun(robot_id, requested, env_name, trigger_type) =>
          IF NoVersion(robot_id, requested)
          THEN /\ rc'.pc = "idle" /\ rc'.error = "Robot version not found for execution."
               /\ runs' = runs /\ queue' = queue
          ELSE IF KeysWithoutValue(robot_id, requested, EnvUpper(env_name)) # {}
          THEN /\ rc'.pc = "idle" /\ rc'.error = "Missing required env vars"
               /\ rc'.missing = KeysWithoutValue(robot_id, requested, EnvUpper(env_name))
               /\ runs' = runs /\ queue' = queue
          ELSE /\ rc'.pc # "idle" /\ rc'.error = NoMessage
               /\ rc'.robot_id = robot_id
               /\ rc'.version_id = VersionToRun(robot_id, requested)

\* the commit of a call that passed the preflight adds exactly one row,
\* PENDING, for the robot and the version of the call
OneRowProduced ==
    (rc.pc = "commit" /\ rc' # rc) =>
        /\ Len(runs') = Len(runs) + 1
        /\ SubSeq(runs', 1, Len(runs)) = runs
        /\ runs'[Len(runs')].status = PENDING
        /\ runs'[Len(runs')].robot_id = rc.robot_id
        /\ runs'[Len(runs')].robot_version_id = rc.version_id
        /\ rc'.run_id = Len(runs')

\* the messages in a queue that carry run_id
MessagesOf(q, run_id) == {i \in DOMAIN q : q[i].run_id = run_id}

InitEnq ==
    /\ schedule \in ScheduleRows({MaxRetry}, {1})
    /\ runs = <<>>
    /\ queue = <<>>
    /\ logs = <<>>
    /\ audit = <<>>
    /\ now = 0
    /\ wk = WorkerIdle
    /\ proc = [state |-> "none", code |-> NULL]
    /\ resp = [run_id |-> NULL, code |-> NULL, principal |-> NoUser]
    /\ called = {}
    /\ SchedIdle
    /\ SlaIdle
    /\ LogIdle
    /\ \E required \in RequiredSets, second \in BOOLEAN :
          LET first == <<NewVersion(1, "1.0.0", "stable", FALSE, {}),
                         NewVersion(1, "1.1.0", "beta", TRUE, required)>>
              tags == SetReleaseTag(SetReleaseTag(<<>>, 1, "latest", 2), 1, "stable", 1) IN
          /\ robots = IF second THEN {1, 2} ELSE {1}
          /\ versions = IF second THEN Append(first, NewVersion(2, "1.0.0", "stable", TRUE, {}))
                        ELSE first
          /\ rtags = IF second
                     THEN SetReleaseTag(SetReleaseTag(tags, 2, "latest", 3), 2, "stable", 3)
                     ELSE tags
    /\ envs = {}
    /\ rc = CallerIdle
    /\ CronIdle
    /\ OpsIdle

NextEnq ==
    \/ \E robot_id \in EnvRobots, env_name \in EnvInputs, key \in EnvKeys :
          UpsertEnvVar(robot_id, env_name, key)
    \/ \E robot_id \in EnvRobots, env_name \in EnvInputs, key \in EnvKeys :
          DeleteEnvVar(robot_id, env_name, key)
    \/ \E robot_id \in RobotIds, requested \in {NULL} \cup 1..Len(versions) + 1,
          env_name \in EnvInputs, trigger_type \in {MANUAL, SCHEDULED} :
          CreateRun(robot_id, requested, env_name, trigger_type)
    \/ CommitRun
    \/ EnqueueRun
    \/ ProcessRun
    \/ RetryCommit
    \/ RetryPush

SpecEnq == InitEnq /\ [][NextEnq]_vars


(***************************************************************************)
(* Cron fields (SpecCron): _cron_field_regex and _match_cron_field over    *)
(* fields typed character by character                                     *)
(***************************************************************************)
Digits == {"0", "1", "2", "7"}
Chars == {"*", "/", "-", ","} \cup Digits

\* the fields of _cron_matches by min_value and is_day_of_week: minute and
\* hour, day and month, dow
FieldKinds == {"minute", "day", "dow"}
MinValue(kind) == IF kind = "day" THEN 1 ELSE 0
IsDayOfWeek(kind) == kind = "dow"

DigitValue(c) == CASE c = "0" -> 0 [] c = "1" -> 1 [] c = "2" -> 2 [] c = "7" -> 7

\* int(text) for a text of digits
RECURSIVE IntOf(_)
IntOf(text) ==
    IF text = <<>> THEN 0
    ELSE IntOf(SubSeq(text, 1, Len(text) - 1)) * 10 + DigitValue(text[Len(text)])

\* the position of the first c in text, 0 when there is none
FirstIndex(text, c) ==
    IF \E i \in DOMAIN text : text[i] = c
    THEN CHOOSE i \in DOMAIN text : text[i] = c /\ \A j \in 1..(i - 1) : text[j] # c
    ELSE 0

\* text.split(c, 1) for a text that holds c
SplitOnce(text, c) ==
    LET i == FirstIndex(text, c) IN
    <<SubSeq(text, 1, i - 1), SubSeq(text, i + 1, Len(text))>>

\* text.split(","): the parts between the commas, empty ones included
RECURSIVE Split(_)
Split(text) ==
    IF FirstIndex(text, ",") = 0 THEN <<text>>
    ELSE <<SplitOnce(text, ",")[1]>> \o Split(SplitOnce(text, ",")[2])

\* \d+
IsDigits(text) == text # <<>> /\ \A i \in DOMAIN text : text[i] \in Digits

\* (\*|\d+|\d+-\d+)
IsBase(text) ==
    \/ text = <<"*">>
    \/ IsDigits(text)
    \/ /\ FirstIndex(text, "-") # 0
       /\ IsDigits(SplitOnce(text, "-")[1])
       /\ IsDigits(SplitOnce(text, "-")[2])

\* _cron_field_regex.match(part): ^(\*|\d+|\d+-\d+)(/\d+)?$
CronFieldRegex(part) ==
    \/ IsBase(part)
    \/ /\ FirstIndex(part, "/") # 0
       /\ IsBase(SplitOnce(part, "/")[1])
       /\ IsDigits(SplitOnce(part, "/")[2])

\* start and end of a range in a day-of-week field: 7 becomes 0
DowValue(n, is_day_of_week) == IF is_day_of_week /\ n = 7 THEN 0 ELSE n

\* the loop of _match_cron_field over raw.split(","): "True" and "False" are
\* its returns, "ZeroDivisionError" is the exception of % with step 0
RECURSIVE MatchParts(_, _, _, _)
MatchParts(parts, value, min_value, is_day_of_week) ==
    IF parts = <<>> THEN "False"
    ELSE
    LET part == Head(parts)
        continue == MatchParts(Tail(parts), value, min_value, is_day_of_week)
        has_step == FirstIndex(part, "/") # 0
        base == IF has_step THEN SplitOnce(part, "/")[1] ELSE part
        step == IF has_step THEN IntOf(SplitOnce(part, "/")[2]) ELSE 1 IN
    IF part = <<>> THEN continue
    ELSE IF part = <<"*">> THEN "True"
    ELSE IF ~CronFieldRegex(part) THEN "False"
    ELSE IF base = <<"*">>
    THEN IF step = 0 THEN "ZeroDivisionError"
         ELSE IF (value - min_value) % step = 0 THEN "True" ELSE continue
    ELSE IF FirstIndex(base, "-") # 0
    THEN LET start == DowValue(IntOf(SplitOnce(base, "-")[1]), is_day_of_week)
             end == DowValue(IntOf(SplitOnce(base, "-")[2]), is_day_of_week) IN
         IF start > end THEN "False"
         ELSE IF start <= value /\ value <= end
         THEN IF step = 0 THEN "ZeroDivisionError"
              ELSE IF (value - start) % step = 0 THEN "True" ELSE continue
         ELSE continue
    ELSE IF DowValue(IntOf(base), is_day_of_week) = value THEN "True" ELSE continue

\* _match_cron_field(raw, value, min_value, max_value, is_day_of_week);
\* the alphabet has no blank, so part.strip() is part
MatchCronField(raw, value, min_value, is_day_of_week) ==
    MatchParts(Split(raw), value, min_value, is_day_of_week)

\* a client types one more character of the field
TypeChar(c) ==
    /\ Len(cron) < MaxFieldLen
    /\ cron' = Append(cron, c)
    /\ cres' = [kind |-> "none", out |-> <<>>]
    /\ UNCHANGED <<runVars, schedVars, slaVars, logVars, regVars, opsVars>>

\* _cron_matches evaluates the field, as the field of that kind, against
\* every value from the field minimum up
Match(kind) ==
    /\ cron # <<>>
    /\ cres' = [kind |-> kind,
                out |-> [value \in MinValue(kind)..MaxValue |->
                            MatchCronField(cron, value, MinValue(kind), IsDayOfWeek(kind))]]
    /\ UNCHANGED <<runVars, schedVars, slaVars, logVars, regVars, opsVars, cron>>

InitCron ==
    /\ schedule \in ScheduleRows({0}, {1})
    /\ runs = <<>>
    /\ queue = <<>>
    /\ logs = <<>>
    /\ audit = <<>>
    /\ now = 0
    /\ wk = WorkerIdle
    /\ proc = [state |-> "none", code |-> NULL]
    /\ resp = [run_id |-> NULL, code |-> NULL, principal |-> NoUser]
    /\ called = {}
    /\ SchedIdle
    /\ SlaIdle
    /\ AuxIdle

NextCron ==
    \/ \E c \in Chars : TypeChar(c)
    \/ \E kind \in FieldKinds : Match(kind)

SpecCron == InitCron /\ [][NextCron]_vars

\* an atom of one of the forms *, N, N-M, */S, N-M/S with S >= 1
IsAtom(part) ==
    LET has_step == FirstIndex(part, "/") # 0
        base == IF has_step THEN SplitOnce(part, "/")[1] ELSE part IN
    /\ \/ base = <<"*">>
       \/ ~has_step /\ IsDigits(base)
       \/ /\ FirstIndex(base, "-") # 0
          /\ IsDigits(SplitOnce(base, "-")[1])
          /\ IsDigits(SplitOnce(base, "-")[2])
    /\ has_step => IsDigits(SplitOnce(part, "/")[2]) /\ IntOf(SplitOnce(part, "/")[2]) >= 1

\* the value lies in the set the atom denotes in a field that starts at
\* min_value
InAtom(part, value, min_value) ==
    LET has_step == FirstIndex(part, "/") # 0
        base == IF has_step THEN SplitOnce(part, "/")[1] ELSE part
        every == IF has_step THEN IntOf(SplitOnce(part, "/")[2]) ELSE 1
        from == IF base = <<"*">> THEN min_value
                ELSE IF FirstIndex(base, "-") # 0 THEN IntOf(SplitOnce(base, "-")[1])
                ELSE IntOf(base)
        to == IF base = <<"*">> THEN value
              ELSE IF FirstIndex(base, "-") # 0 THEN IntOf(SplitOnce(base, "-")[2])
              ELSE IntOf(base) IN
    /\ from <= value /\ value <= to
    /\ (value - from) % every = 0

\* texts the formula of C20 says nothing about: a list with an empty part, an
\* atom N/S, a step of 0
Unsettled(raw) ==
    \E i \in DOMAIN Split(raw) :
       LET part == Split(raw)[i] IN
       \/ part = <<>>
       \/ /\ FirstIndex(part, "/") # 0
          /\ IsDigits(SplitOnce(part, "/")[2])
          /\ \/ IsDigits(SplitOnce(part, "/")[1])
             \/ IntOf(SplitOnce(part, "/")[2]) = 0

\* C20: for a minute, hour, day or month field that is a comma list of atoms
\* *, N, N-M, */S, N-M/S, _match_cron_field returns true exactly for the
\* values in the union of the sets its atoms denote; for any other text it
\* returns false for every value.
C20_CronFieldMatcher ==
    (cres.kind \in {"minute", "day"} /\ ~Unsettled(cron)) =>
        LET parts == Split(cron) IN
        \A value \in DOMAIN cres.out :
           cres.out[value] =
              IF /\ \A i \in DOMAIN parts : IsAtom(parts[i])
                 /\ \E i \in DOMAIN parts : InAtom(parts[i], value, MinValue(cres.kind))
              THEN "True" ELSE "False"

\* the days a day-of-week field of one atom N or N-7 denotes when 7 is Sunday
\* as 0 is: the day N itself, or every day from N through Saturday and then
\* Sunday (0)
SundayIsSeven(text, value) ==
    IF Len(text) = 1 THEN value = DowValue(DigitValue(text[1]), TRUE)
    ELSE value = 0 \/ (DigitValue(text[1]) <= value /\ value <= 6)

\* C21: in the day-of-week field 7 is Sunday as 0 is: the field "7" matches
\* exactly on Sunday (0), and a range N-7 matches every day from N through
\* Saturday and also Sunday.
C21_SevenIsSunday ==
    (/\ cres.kind = "dow"
     /\ \/ cron = <<"7">>
        \/ Len(cron) = 3 /\ cron[1] \in Digits /\ cron[2] = "-" /\ cron[3] = "7") =>
        \A value \in DOMAIN cres.out :
           cres.out[value] = IF SundayIsSeven(cron, value) THEN "True" ELSE "False"

(***************************************************************************)
(* Worker pool (SpecPool): run_worker iteration by iteration on several    *)
(* workers that share the broker queue, the pause and resume endpoints,    *)
(* enqueue_run, and process_run as the call it is.  The broker is          *)
(* taken to be available here.  A worker whose process was stopped and     *)
(* started again keeps the status STOPPED in its row until it is resumed:  *)
(* _mark_worker_stopped, then upsert_worker_heartbeat on an existing row.  *)
(***************************************************************************)
PAUSED == "PAUSED"
STOPPED == "STOPPED"
NotLeasing == {PAUSED, STOPPED}
WorkerIds == {"w1", "w2"}
HeartbeatSeconds == 10
StatusPollSeconds == 2
\* settings.worker_stale_seconds, a value of the setting
WorkerStaleSeconds == 20
MinHeartbeatTtl == 60
\* ttl_seconds of the heartbeat key: max(60, settings.worker_stale_seconds * 2)
HeartbeatTtl == Max(MinHeartbeatTtl, WorkerStaleSeconds * 2)

NoItem == Message(NULL, NULL)

\* the locals of run_worker after its first iteration at second 0, which
\* beats, polls and finds the worker RUNNING
PoolStart ==
    [pc |-> "top", current_status |-> RUNNING, item |-> NoItem,
     last_heartbeat_ts |-> 0, last_status_poll_ts |-> 0]

\* now - last >= every
Due(last, every) == now - last >= every

\* mutant: the popped message is not pushed back
Requeue_Dropped(q, item) == q

\* redis.rpush(queue_name, raw_payload): the right end is the end brpop takes
Requeue(q, item) == Append(q, item)

\* set_worker_status behind POST /workers/{id}/pause and /resume, with its
\* audit event
SetWorkerStatus(w, status) ==
    /\ w \in DOMAIN workers
    /\ Len(audit) < MaxPauses
    /\ workers' = [workers EXCEPT ![w].status = status]
    /\ audit' = Append(audit, [action |-> IF status = PAUSED THEN "worker.paused"
                                          ELSE "worker.resumed",
                               target |-> w, actor |-> NoUser])
    /\ UNCHANGED <<runs, queue, logs, schedule, now, wk, proc, resp, called,
                   schedVars, slaVars, logVars, regVars, cronVars, monVars, envVars, cycVars, pool, handed>>

\* register_worker_heartbeat: redis.set(key, time.time(), ex=max(5, ttl));
\* it swallows every exception, so the key may not be written
RegisterWorkerHeartbeat(w, ttl_seconds, written) ==
    IF written
    THEN {k \in hbkeys : k.worker # w}
         \cup {[worker |-> w, ts |-> now, expires_at |-> now + Max(5, ttl_seconds)]}
    ELSE hbkeys

\* run_worker, the top of an iteration: the heartbeat every 10 s (Worker row
\* and broker key) and the status poll every 2 s refresh current_status,
\* then the worker sleeps and starts over when it is PAUSED or STOPPED and
\* goes on to brpop otherwise
PollStatus(w) ==
    /\ pool[w].pc = "top"
    /\ LET beat == Due(pool[w].last_heartbeat_ts, HeartbeatSeconds)
           poll == Due(pool[w].last_status_poll_ts, StatusPollSeconds)
           status == IF beat \/ poll THEN workers[w].status ELSE pool[w].current_status IN
       /\ workers' = IF beat THEN [workers EXCEPT ![w].last_heartbeat = now] ELSE workers
       /\ \E written \in (IF beat THEN BOOLEAN ELSE {FALSE}) :
             hbkeys' = RegisterWorkerHeartbeat(w, HeartbeatTtl, written)
       /\ pool' = [pool EXCEPT
                     ![w].last_heartbeat_ts = IF beat THEN now ELSE @,
                     ![w].last_status_poll_ts = IF poll THEN now ELSE @,
                     ![w].current_status = status,
                     ![w].pc = IF status \in NotLeasing THEN "top" ELSE "brpop"]
    /\ UNCHANGED <<runVars, schedVars, slaVars, logVars, regVars, cronVars, handed, slarules, envVars, cycVars>>

\* redis.brpop(queue_name, timeout=5): the message at the right end, or
\* nothing after the timeout
Brpop(w) ==
    /\ pool[w].pc = "brpop"
    /\ IF queue = <<>>
       THEN /\ pool' = [pool EXCEPT ![w].pc = "top"]
            /\ UNCHANGED queue
       ELSE /\ pool' = [pool EXCEPT ![w].pc = "leased", ![w].item = queue[Len(queue)]]
            /\ queue' = SubSeq(queue, 1, Len(queue) - 1)
    /\ UNCHANGED <<runs, logs, audit, schedule, now, wk, proc, resp, called,
                   schedVars, slaVars, logVars, regVars, cronVars, monVars, envVars, cycVars, workers, handed>>

\* run_worker after brpop returned a message: the status is read again and
\* a PAUSED or STOPPED worker pushes the message back; a message whose
\* not_before_ts is in the future is pushed back too; any other message goes
\* to process_run, which may end FAILED and push the message of the retry
\* (_schedule_retry_if_needed) at the left end
AfterLease(w) ==
    /\ pool[w].pc = "leased"
    /\ LET item == pool[w].item
           status == workers[w].status
           counted == [handed EXCEPT ![item.run_id] = @ + 1] IN
       /\ pool' = [pool EXCEPT ![w].pc = "top", ![w].item = NoItem,
                               ![w].current_status = status]
       /\ IF status \in NotLeasing \/ (item.not_before_ts # NULL /\ now < item.not_before_ts)
          THEN /\ queue' = Requeue(queue, item)
               /\ UNCHANGED handed
          ELSE \/ /\ handed' = counted
                  /\ UNCHANGED queue
               \/ /\ Len(handed) < MaxRuns
                  /\ handed' = Append(counted, 0)
                  /\ queue' = <<Message(Len(handed) + 1,
                                        RetryNotBefore(schedule.retry_backoff_seconds))>> \o queue
    /\ UNCHANGED <<runs, logs, audit, schedule, now, wk, proc, resp, called,
                   schedVars, slaVars, logVars, regVars, cronVars, monVars, envVars, cycVars, workers>>

\* enqueue_run(payload) at the end of create_run_and_enqueue: the message
\* of a new run is pushed at the left end
PoolEnqueueRun ==
    /\ Len(handed) < MaxRuns
    /\ handed' = Append(handed, 0)
    /\ queue' = <<Message(Len(handed) + 1, NULL)>> \o queue
    /\ UNCHANGED <<runs, logs, audit, schedule, now, wk, proc, resp, called,
                   schedVars, slaVars, logVars, regVars, cronVars, monVars, envVars, cycVars, workers, pool>>

\* two started workers, the second one possibly after a stop and a restart;
\* the queue is empty or holds the message of a retry that was pushed at
\* second 0
InitPool ==
    /\ schedule \in ScheduleRows({MaxRetry}, {1})
    /\ runs = <<>>
    /\ logs = <<>>
    /\ audit = <<>>
    /\ now = 0
    /\ wk = WorkerIdle
    /\ proc = [state |-> "none", code |-> NULL]
    /\ resp = [run_id |-> NULL, code |-> NULL, principal |-> NoUser]
    /\ called = {}
    /\ SchedIdle
    /\ SlaIdle
    /\ LogIdle
    /\ RegIdle
    /\ CronIdle
    /\ \E second \in {RUNNING, STOPPED} :
          /\ workers = [w \in WorkerIds |->
                          [status |-> IF w = "w2" THEN second ELSE RUNNING, last_heartbeat |-> 0]]
          /\ pool = [w \in WorkerIds |-> [PoolStart EXCEPT !.current_status = workers[w].status]]
    /\ \/ queue = <<>> /\ handed = <<>>
       \/ /\ queue = <<Message(1, RetryNotBefore(schedule.retry_backoff_seconds))>>
          /\ handed = <<0>>
    /\ hbkeys = {[worker |-> w, ts |-> 0, expires_at |-> HeartbeatTtl] : w \in WorkerIds}
    /\ slarules = <<>>
    /\ childenv = <<>>
    /\ cycle = <<>>

NextPool ==
    \/ Tick
    \/ PoolEnqueueRun
    \/ \E w \in WorkerIds, status \in {PAUSED, RUNNING} : SetWorkerStatus(w, status)
    \/ \E w \in WorkerIds : PollStatus(w)
    \/ \E w \in WorkerIds : Brpop(w)
    \/ \E w \in WorkerIds : AfterLease(w)

SpecPool == InitPool /\ [][NextPool]_vars

\* the tail of the FIFO queue: the left end, where lpush puts a new message,
\* behind every message that is waiting for brpop
AtTail(q, item) == <<item>> \o q

\* the worker holds a popped message whose not_before_ts is in the future
LeasedEarly(w) ==
    /\ pool[w].pc = "leased"
    /\ workers[w].status \notin NotLeasing
    /\ pool[w].item.not_before_ts # NULL
    /\ now < pool[w].item.not_before_ts

\* C22: a worker that has leased a message whose not_before_ts is in the
\* future puts it back at the tail of the queue, behind every message that
\* is already waiting.
C22_BackoffToTail ==
    [][\A w \in WorkerIds :
          (LeasedEarly(w) /\ pool'[w].pc = "top") => queue' = AtTail(queue, pool[w].item)]_vars

\* the number of copies of the message of run r in the queue
InQueue(q, r) == Cardinality({i \in DOMAIN q : q[i].run_id = r})

\* the number of workers that hold the message of run r between brpop and
\* the decision to push it back or to process it
InHand(p, r) == Cardinality({w \in WorkerIds : p[w].item.run_id = r})

SlaIntervalSeconds == 30
\* settings.failure_streak_threshold and settings.queue_backlog_alert_threshold,
\* a value of each setting
FailureStreakThreshold == 2
QueueBacklogThreshold == 1

\* the checks of one cycle in the order run_sla_monitor_cycle makes them
CheckOrder == <<"LATE", "FAILURE_STREAK", "QUEUE_BACKLOG", "WORKER_DOWN">>

\* the severity each call site passes to create_alert_if_needed
SeverityOf(type) == IF type \in {"LATE", "QUEUE_BACKLOG"} THEN "WARN" ELSE "CRITICAL"

\* _pick_robot_for_system_alert: the robot of the enabled schedule
PickRobotForSystemAlert == 1

\* the clock of the monitor specifications moves in steps of step seconds
TickBy(step) ==
    /\ now < MaxTicks * step
    /\ now' = now + step
    /\ UNCHANGED <<runs, queue, logs, audit, schedule, wk, proc, resp, called,
                   schedVars, slaVars, auxVars>>

\* the process of worker w is killed between two iterations: no heartbeat
\* after that, the Worker row and the broker key stay as they are
KillWorker(w) ==
    /\ pool[w].pc = "top"
    /\ pool' = [pool EXCEPT ![w].pc = "down"]
    /\ UNCHANGED <<runVars, schedVars, slaVars, logVars, regVars, cronVars,
                   workers, handed, monVars, envVars, cycVars>>

\* queued_at of the run select(Run).order_by(Run.queued_at.desc()).limit(1)
\* returns
LastQueuedAt == MaxOf({runs[r].queued_at : r \in DOMAIN runs})

\* an SlaRule row; a column that is not set holds NULL (NoTime for the text
\* column expected_daily_time)
NoTime == "NULL"
SlaRule(every, daily, late_after, on_failure, on_late) ==
    [expected_run_every_minutes |-> every,
     expected_daily_time |-> daily,
     late_after_minutes |-> late_after,
     alert_on_failure |-> on_failure,
     alert_on_late |-> on_late]

\* Python truth of an integer column: set and not zero
Truthy(value) == value # NULL /\ value # 0

IsRobotLate_AtLeast(rule, now_utc) ==
    /\ Truthy(rule.expected_run_every_minutes)
    /\ \/ runs = <<>>
       \/ now_utc - LastQueuedAt >=
             (rule.expected_run_every_minutes + rule.late_after_minutes) * SecondsPerMinute
\* _is_robot_late, the branch of a rule with expected_run_every_minutes:
\* elapsed_minutes is the difference in seconds divided by 60 (the rules of
\* the monitor specifications have expected_run_every_minutes set)
IsRobotLate(rule, now_utc) ==
    /\ Truthy(rule.expected_run_every_minutes)
    /\ \/ runs = <<>>
       \/ now_utc - LastQueuedAt >
             (rule.expected_run_every_minutes + rule.late_after_minutes) * SecondsPerMinute

\* mutant: one FAILED run among the last threshold runs is enough
HasFailureStreak_Any(threshold) ==
    /\ threshold > 0
    /\ Len(runs) >= threshold
    /\ \E r \in (Len(runs) - threshold + 1)..Len(runs) : runs[r].status = FAILED

\* _has_failure_streak: the last threshold runs by queued_at (here: by id)
\* are all FAILED
HasFailureStreak(threshold) ==
    /\ threshold > 0
    /\ Len(runs) >= threshold
    /\ \A r \in (Len(runs) - threshold + 1)..Len(runs) : runs[r].status = FAILED

\* list_worker_heartbeats: the keys that have not expired
ListWorkerHeartbeats == {k \in hbkeys : now < k.expires_at}

\* the stale list of _evaluate_worker_down
StaleWorkers(now_utc) ==
    {k.worker : k \in {h \in ListWorkerHeartbeats : now_utc - h.ts > WorkerStaleSeconds}}

\* the condition under which the cycle calls create_alert_if_needed for type
AlertCondition(type, now_utc) ==
    CASE type = "LATE" ->
            /\ slarules # <<>>
            /\ slarules[1].alert_on_late
            /\ IsRobotLate(slarules[1], now_utc)
      [] type = "FAILURE_STREAK" ->
            /\ slarules # <<>>
            /\ slarules[1].alert_on_failure
            /\ HasFailureStreak(FailureStreakThreshold)
      [] type = "QUEUE_BACKLOG" -> Len(queue) > QueueBacklogThreshold
      [] type = "WORKER_DOWN" -> StaleWorkers(now_utc) # {}

\* the monitor after the check of rec.type: the next check, or the end of the
\* cycle
AfterCheck(rec) ==
    LET i == CHOOSE k \in DOMAIN CheckOrder : CheckOrder[k] = rec.type IN
    IF i = Len(CheckOrder) THEN MonitorIdle
    ELSE [pc |-> "check", type |-> CheckOrder[i + 1], now_utc |-> rec.now_utc]

\* run_sla_monitor_cycle starts: now_utc is taken
MonStart(m) ==
    /\ mon[m].pc = "idle"
    /\ mon' = [mon EXCEPT ![m] = [pc |-> "check", type |-> CheckOrder[1], now_utc |-> now]]
    /\ UNCHANGED <<runVars, schedVars, alerts, auxVars>>

\* one check of the cycle: its condition and, when it holds, the select of
\* create_alert_if_needed for an unresolved alert of (robot, type)
MonCheck(m) ==
    /\ mon[m].pc = "check"
    /\ Len(alerts) + Cardinality({k \in Monitors : mon[k].pc = "insert"}) < MaxAlerts
    /\ mon' = [mon EXCEPT ![m] =
                 IF /\ AlertCondition(mon[m].type, mon[m].now_utc)
                    /\ OpenAlerts(PickRobotForSystemAlert, mon[m].type) = {}
                 THEN [mon[m] EXCEPT !.pc = "insert"]
                 ELSE AfterCheck(mon[m])]
    /\ UNCHANGED <<runVars, schedVars, alerts, auxVars>>

\* create_alert_if_needed after the select: db.add(alert), commit, the audit
\* event alert.created
MonInsert(m) ==
    /\ mon[m].pc = "insert"
    /\ alerts' = Append(alerts, [robot_id |-> PickRobotForSystemAlert, type |-> mon[m].type,
                                 severity |-> SeverityOf(mon[m].type), created_at |-> now,
                                 resolved_at |-> NULL])
    /\ audit' = Append(audit, [action |-> "alert.created", target |-> Len(alerts) + 1,
                                actor |-> NoUser])
    /\ mon' = [mon EXCEPT ![m] = AfterCheck(mon[m])]
    /\ UNCHANGED <<runs, queue, logs, schedule, now, wk, proc, resp, called, schedVars, auxVars>>

\* robot 1 as create_robot leaves it (InitHb, InitLate)
OneRobot ==
    /\ robots = {1}
    /\ versions = <<NewVersion(1, "1.0.0", "stable", TRUE, {})>>
    /\ rtags = SetReleaseTag(SetReleaseTag(<<>>, 1, "latest", 1), 1, "stable", 1)
    /\ envs = {}
    /\ rc = CallerIdle

\* two workers that have just beaten, the key of the second one possibly not
\* written; no run, no rule, no alert
InitHb ==
    /\ schedule \in ScheduleRows({0}, {1})
    /\ runs = <<>>
    /\ queue = <<>>
    /\ logs = <<>>
    /\ audit = <<>>
    /\ now = 0
    /\ wk = WorkerIdle
    /\ proc = [state |-> "none", code |-> NULL]
    /\ resp = [run_id |-> NULL, code |-> NULL, principal |-> NoUser]
    /\ called = {}
    /\ SchedIdle
    /\ SlaIdle
    /\ LogIdle
    /\ OneRobot
    /\ CronIdle
    /\ workers = [w \in WorkerIds |-> [status |-> RUNNING, last_heartbeat |-> 0]]
    /\ pool = [w \in WorkerIds |-> PoolStart]
    /\ handed = <<>>
    /\ \E written \in SUBSET WorkerIds :
          /\ "w1" \in written
          /\ hbkeys = {[worker |-> w, ts |-> 0, expires_at |-> HeartbeatTtl] : w \in written}
    /\ slarules = <<>>
    /\ childenv = <<>>
    /\ cycle = <<>>

NextHb ==
    \/ TickBy(SlaIntervalSeconds)
    \/ \E w \in WorkerIds : PollStatus(w)
    \/ \E w \in WorkerIds : Brpop(w)
    \/ \E w \in WorkerIds : KillWorker(w)
    \/ MonStart("m1")
    \/ MonCheck("m1")
    \/ MonInsert("m1")

SpecHb == InitHb /\ [][NextHb]_vars

\* some heartbeat key in the broker is older than the stale window
StaleKey(now_utc) ==
    \E k \in ListWorkerHeartbeats : now_utc - k.ts > WorkerStaleSeconds

\* some Worker row's last_heartbeat is older than the stale window
StaleRow(now_utc) ==
    \E w \in DOMAIN workers : now_utc - workers[w].last_heartbeat > WorkerStaleSeconds

\* C24: when the WORKER_DOWN check of a monitor cycle finds a heartbeat key
\* or a Worker row older than the stale window, an unresolved WORKER_DOWN
\* alert exists already or the cycle goes on to open one; this includes a
\* worker whose key has expired.
C24_WorkerDownDetected ==
    [][\A m \in Monitors :
          (/\ mon[m].pc = "check"
           /\ mon[m].type = "WORKER_DOWN"
           /\ mon'[m] # mon[m]
           /\ StaleKey(mon[m].now_utc) \/ StaleRow(mon[m].now_utc)) =>
             \/ OpenAlerts(PickRobotForSystemAlert, "WORKER_DOWN") # {}
             \/ mon'[m].pc = "insert"]_vars

(***************************************************************************)
(* SpecLate: the monitor cycle for a robot with an interval rule, runs     *)
(* queued meanwhile, alerts resolved by an operator.                       *)
(***************************************************************************)
\* a run of the robot is queued (create_run_and_enqueue commits the row)
QueueRobotRun ==
    /\ Len(runs) < MaxRuns
    /\ runs' = Append(runs, NewRun(MANUAL, 1, NULL, NULL, "PROD", NULL, now))
    /\ UNCHANGED <<queue, logs, audit, schedule, now, wk, proc, resp, called,
                   schedVars, slaVars, auxVars>>

\* the rules create_sla_rule accepts with an interval of one minute and a
\* tolerance of one minute
IntervalRules ==
    {SlaRule(1, NoTime, 1, on_failure, on_late) : on_failure \in {FALSE}, on_late \in BOOLEAN}

InitLate ==
    /\ schedule \in ScheduleRows({0}, {1})
    /\ runs = <<>>
    /\ queue = <<>>
    /\ logs = <<>>
    /\ audit = <<>>
    /\ now = 0
    /\ wk = WorkerIdle
    /\ proc = [state |-> "none", code |-> NULL]
    /\ resp = [run_id |-> NULL, code |-> NULL, principal |-> NoUser]
    /\ called = {}
    /\ SchedIdle
    /\ SlaIdle
    /\ LogIdle
    /\ OneRobot
    /\ CronIdle
    /\ workers = <<>>
    /\ pool = <<>>
    /\ handed = <<>>
    /\ hbkeys = {}
    /\ \E rule \in IntervalRules : slarules = <<rule>>
    /\ childenv = <<>>
    /\ cycle = <<>>

NextLate ==
    \/ TickBy(SecondsPerMinute)
    \/ QueueRobotRun
    \/ MonStart("m1")
    \/ MonCheck("m1")
    \/ MonInsert("m1")
    \/ \E i \in DOMAIN alerts : ResolveAlert(i)

SpecLate == InitLate /\ [][NextLate]_vars

\* the robot has no Run, or its most recently queued Run is more than
\* expected_run_every_minutes + late_after_minutes minutes before now_utc
LateByInterval(rule, now_utc) ==
    \/ DOMAIN runs = {}
    \/ \E r \in DOMAIN runs :
          /\ \A o \in DOMAIN runs : runs[o].queued_at <= runs[r].queued_at
          /\ now_utc - runs[r].queued_at >
                SecondsPerMinute * rule.expected_run_every_minutes
                   + SecondsPerMinute * rule.late_after_minutes

\* C25: for a rule with expected_run_every_minutes and alert_on_late, the
\* LATE check of a tick at now_utc goes on to create an alert exactly when
\* the robot is late by the interval and no unresolved LATE alert exists;
\* the row it creates is one unresolved LATE alert of severity WARN, and a
\* check made while such an alert is unresolved creates no row.
C25_LateByInterval ==
    [][\A m \in Monitors :
          /\ (/\ mon[m].pc = "check"
              /\ mon[m].type = "LATE"
              /\ mon'[m] # mon[m]
              /\ slarules[1].alert_on_late) =>
                 /\ (mon'[m].pc = "insert") <=>
                       /\ LateByInterval(slarules[1], mon[m].now_utc)
                       /\ OpenAlerts(1, "LATE") = {}
                 /\ alerts' = alerts
          /\ (/\ mon[m].pc = "insert"
              /\ mon[m].type = "LATE"
              /\ mon'[m] # mon[m]) =>
                 /\ Len(alerts') = Len(alerts) + 1
                 /\ SubSeq(alerts', 1, Len(alerts)) = alerts
                 /\ alerts'[Len(alerts')].type = "LATE"
                 /\ alerts'[Len(alerts')].severity = "WARN"
                 /\ alerts'[Len(alerts')].resolved_at = NULL]_vars

\* a tick made two minutes after the run was queued has passed its LATE check
\* without an alert, and a tick made after the first alert was created, the
\* robot still late, has passed its LATE check and left that alert the only
\* one
C25_Witness ==
    /\ Len(runs) = 1
    /\ Len(alerts) = 1
    /\ alerts[1].type = "LATE"
    /\ alerts[1].resolved_at = NULL
    /\ \E m \in Monitors :
          /\ mon[m].pc = "check"
          /\ mon[m].type = "FAILURE_STREAK"
          /\ mon[m].now_utc > alerts[1].created_at
          /\ LateByInterval(slarules[1], mon[m].now_utc)

(***************************************************************************)
(* SpecEnv: the environment process_run hands to the child process, built  *)
(* from the worker's own environment, the version row, the env store of    *)
(* the robot and the runtime_env of the message.                           *)
(***************************************************************************)
EnvValues == {"v1", "v2"}
RunEnvNames == {"PROD", "TEST"}

\* dict[str, str] over the keys of the model
Dicts == UNION {[keys -> EnvValues] : keys \in SUBSET EnvKeys}
EmptyDict == [key \in {} |-> "v1"]

\* dict.update / {**base, **other}: the keys of both, other wins
Update(base, other) ==
    [key \in DOMAIN base \cup DOMAIN other |->
        IF key \in DOMAIN other THEN other[key] ELSE base[key]]

\* resolve_runtime_env: the rows of the robot for env_name, key -> value
ResolveRuntimeEnv(store, env_name) == store[env_name]

MakeEnvironment_VersionLast(os_environ, version_env, runtime_env) ==
    Update(Update(os_environ, runtime_env), version_env)
\* make_environment
MakeEnvironment(os_environ, version_env, runtime_env) ==
    Update(Update(os_environ, version_env), runtime_env)

\* process_run from resolve_runtime_env to make_environment
BuildChildEnv ==
    /\ ~childenv.built
    /\ LET robot_env_values == ResolveRuntimeEnv(childenv.store, childenv.env_name)
           merged_runtime_env == Update(robot_env_values, childenv.runtime_env)
       IN childenv' = [childenv EXCEPT
                         !.built = TRUE,
                         !.env = MakeEnvironment(childenv.os_environ, childenv.version_env,
                                                 merged_runtime_env)]
    /\ UNCHANGED <<runVars, schedVars, slaVars, logVars, regVars, cronVars, poolVars, monVars, cycVars>>

\* the four sources of one run; the env store holds any rows for the env of
\* the run and none or all keys for the other env
InitEnv ==
    /\ schedule \in ScheduleRows({0}, {1})
    /\ runs = <<>>
    /\ queue = <<>>
    /\ logs = <<>>
    /\ audit = <<>>
    /\ now = 0
    /\ wk = WorkerIdle
    /\ proc = [state |-> "none", code |-> NULL]
    /\ resp = [run_id |-> NULL, code |-> NULL, principal |-> NoUser]
    /\ called = {}
    /\ SchedIdle
    /\ SlaIdle
    /\ LogIdle
    /\ RegIdle
    /\ CronIdle
    /\ workers = <<>>
    /\ pool = <<>>
    /\ handed = <<>>
    /\ hbkeys = {}
    /\ slarules = <<>>
    /\ \E os_environ \in Dicts, version_env \in Dicts, runtime_env \in Dicts,
          env_name \in RunEnvNames, mine \in Dicts,
          other \in {EmptyDict, [key \in EnvKeys |-> "v1"]} :
          childenv = [os_environ |-> os_environ,
                      version_env |-> version_env,
                      store |-> [name \in RunEnvNames |->
                                    IF name = env_name THEN mine ELSE other],
                      env_name |-> env_name,
                      runtime_env |-> runtime_env,
                      built |-> FALSE,
                      env |-> EmptyDict]
    /\ cycle = <<>>

NextEnv == BuildChildEnv

SpecEnv == InitEnv /\ [][NextEnv]_vars

\* the sources of the child environment from left to right
EnvSources ==
    <<childenv.os_environ, childenv.version_env,
      childenv.store[childenv.env_name], childenv.runtime_env>>

\* C26: in the environment built for the child, every key carries the value
\* of the right-most of worker env, version env, robot env store for the
\* env_name of the run and runtime_env that defines it, and a key none of
\* them defines is absent.
C26_EnvMergePrecedence ==
    childenv # <<>> /\ childenv.built =>
        \A key \in EnvKeys :
           LET defining == {i \in DOMAIN EnvSources : key \in DOMAIN EnvSources[i]} IN
           IF defining = {} THEN key \notin DOMAIN childenv.env
           ELSE /\ key \in DOMAIN childenv.env
                /\ childenv.env[key] = EnvSources[MaxOf(defining)][key]

\* one key defined by all four sources with neighbours that differ, the other
\* key by the version row alone
C26_Witness ==
    /\ childenv # <<>>
    /\ childenv.built
    /\ childenv.os_environ = [key \in {"API_TOKEN"} |-> "v1"]
    /\ childenv.version_env = [key \in EnvKeys |-> "v2"]
    /\ childenv.store[childenv.env_name] = [key \in {"API_TOKEN"} |-> "v1"]
    /\ childenv.runtime_env = [key \in {"API_TOKEN"} |-> "v2"]
    /\ childenv.env = [key \in EnvKeys |-> "v2"]

(***************************************************************************)
(* Finalization decision of process_run (Spec)                             *)
(***************************************************************************)
\* the timeout that applies to run r: that of its schedule, 3600 without one
TimeoutOf(r) ==
    IF runs[r].schedule_id # NULL THEN schedule.timeout_seconds ELSE DefaultTimeout

\* C27: the step that ends the supervision loop normally writes CANCELED
\* without error_message when the run was canceled, else FAILED with
\* "TIMEOUT" when it timed out, whatever the exit code, else SUCCESS on exit
\* code 0, else FAILED with the exit code in error_message; the loop marks a
\* run timed_out only when more than its timeout has elapsed since the start.
C27_FinalizationDecision ==
    [][/\ (wk.pc = "finalize" /\ wk'.pc # "finalize") =>
             LET before == wk
                 code == proc.code
                 row == runs'[wk.run_id] IN
             /\ before.canceled =>
                   row.status = CANCELED /\ row.error_message = NoMessage
             /\ (~before.canceled /\ before.timed_out) =>
                   row.status = FAILED /\ row.error_message = "TIMEOUT"
             /\ (~before.canceled /\ ~before.timed_out /\ code = 0) =>
                   row.status = SUCCESS
             /\ (~before.canceled /\ ~before.timed_out /\ code # 0) =>
                   row.status = FAILED /\ row.error_message = "Process returned exit code 1"
       /\ (wk.pc = "loop" /\ ~wk.timed_out /\ wk'.timed_out) =>
             now - wk.started_monotonic > TimeoutOf(wk.run_id)]_vars

\* a run of the schedule was started at second 0, timed out after more than
\* its timeout of one second and has just been finalized as FAILED / TIMEOUT
C27_Witness ==
    /\ wk.pc = "artifacts"
    /\ wk.timed_out
    /\ ~wk.canceled
    /\ runs[wk.run_id].schedule_id # NULL
    /\ runs[wk.run_id].status = FAILED
    /\ runs[wk.run_id].error_message = "TIMEOUT"
    /\ runs[wk.run_id].finished_at - runs[wk.run_id].started_at > schedule.timeout_seconds

(***************************************************************************)
(* SpecRules: the schedule and SLA endpoints of one robot. Payloads are     *)
(* the pydantic models after field validation: text fields match           *)
(* TIME_PATTERN or are null, model_fields_set names what the client sent.   *)
(***************************************************************************)
Times == {"08:00", "18:00"}
TimeOrNull == Times \cup {NoTime}
NoSchedule == <<>>

\* the Schedule row create_schedule inserts; only the window comes from the
\* payload of the model
WindowSchedule(window_start, window_end) ==
    [id |-> 1, retry_count |-> 0, retry_backoff_seconds |-> 1, timeout_seconds |-> 1,
     max_concurrency |-> 1, window_start |-> window_start, window_end |-> window_end]

\* bool(window_start) ^ bool(window_end)
OneSided(window_start, window_end) == (window_start # NoTime) # (window_end # NoTime)

\* ScheduleBase.validate_window and _validate_schedule_payload for a payload
\* with a valid cron_expr: both raise on a one-sided window
ValidateSchedulePayload(window_start, window_end) == ~OneSided(window_start, window_end)

\* SlaRuleBase.validate_expectation and _validate_sla_payload: both raise
\* when neither expectation is given
ValidateSlaPayload(every, daily) == Truthy(every) \/ daily # NoTime

\* ScheduleUpdate bodies that touch the window: a field that was not sent
\* has its default None
ScheduleUpdates ==
    {payload \in [fields_set : SUBSET {"window_start", "window_end"},
                  window_start : TimeOrNull,
                  window_end : TimeOrNull] :
        /\ "window_start" \notin payload.fields_set => payload.window_start = NoTime
        /\ "window_end" \notin payload.fields_set => payload.window_end = NoTime}

\* SlaRuleUpdate bodies that touch the expectation
SlaRuleUpdates ==
    {payload \in [fields_set : SUBSET {"expected_run_every_minutes", "expected_daily_time"},
                  expected_run_every_minutes : {NULL, 1},
                  expected_daily_time : {NoTime, "08:00"}] :
        /\ "expected_run_every_minutes" \notin payload.fields_set =>
              payload.expected_run_every_minutes = NULL
        /\ "expected_daily_time" \notin payload.fields_set =>
              payload.expected_daily_time = NoTime}

\* log_audit_event of the endpoint after a write that went through
Audited(action, principal) ==
    audit' = Append(audit, [action |-> action, target |-> 1, actor |-> principal])

\* POST /robots/{id}/schedule
CreateSchedule(principal, window_start, window_end) ==
    /\ Len(audit) < MaxWrites
    /\ IF ValidateSchedulePayload(window_start, window_end) /\ schedule = NoSchedule
       THEN /\ schedule' = WindowSchedule(window_start, window_end)
            /\ Audited("schedule.created", principal)
       ELSE UNCHANGED <<schedule, audit>>
    /\ UNCHANGED <<runs, queue, logs, now, wk, proc, resp, called, schedVars, slaVars, auxVars>>

\* PATCH /robots/{id}/schedule: update_schedule validates the payload value
\* or, where that is None, the stored one, then sets every field that was sent
UpdateSchedule(principal, payload) ==
    /\ Len(audit) < MaxWrites
    /\ LET window_start == IF payload.window_start # NoTime THEN payload.window_start
                           ELSE schedule.window_start
           window_end == IF payload.window_end # NoTime THEN payload.window_end
                         ELSE schedule.window_end IN
       IF schedule # NoSchedule /\ ValidateSchedulePayload(window_start, window_end)
       THEN /\ schedule' =
                  [schedule EXCEPT
                     !.window_start = IF "window_start" \in payload.fields_set
                                      THEN payload.window_start ELSE @,
                     !.window_end = IF "window_end" \in payload.fields_set
                                    THEN payload.window_end ELSE @]
            /\ Audited("schedule.updated", principal)
       ELSE UNCHANGED <<schedule, audit>>
    /\ UNCHANGED <<runs, queue, logs, now, wk, proc, resp, called, schedVars, slaVars, auxVars>>

\* DELETE /robots/{id}/schedule
DeleteSchedule(principal) ==
    /\ Len(audit) < MaxWrites
    /\ IF schedule # NoSchedule
       THEN /\ schedule' = NoSchedule
            /\ Audited("schedule.deleted", principal)
       ELSE UNCHANGED <<schedule, audit>>
    /\ UNCHANGED <<runs, queue, logs, now, wk, proc, resp, called, schedVars, slaVars, auxVars>>

\* POST /robots/{id}/sla
CreateSlaRule(principal, every, daily, late_after) ==
    /\ Len(audit) < MaxWrites
    /\ IF ValidateSlaPayload(every, daily) /\ slarules = <<>>
       THEN /\ slarules' = <<SlaRule(every, daily, late_after, TRUE, TRUE)>>
            /\ Audited("sla.created", principal)
       ELSE UNCHANGED <<slarules, audit>>
    /\ UNCHANGED <<runs, queue, logs, schedule, now, wk, proc, resp, called, schedVars,
                   slaVars, logVars, regVars, cronVars, poolVars, hbkeys, envVars, cycVars>>

\* PATCH /robots/{id}/sla
UpdateSlaRule(principal, payload) ==
    /\ Len(audit) < MaxWrites
    /\ LET rule == slarules[1]
           expected_run_every == IF payload.expected_run_every_minutes # NULL
                                 THEN payload.expected_run_every_minutes
                                 ELSE rule.expected_run_every_minutes
           expected_daily_time == IF payload.expected_daily_time # NoTime
                                  THEN payload.expected_daily_time
                                  ELSE rule.expected_daily_time IN
       IF slarules # <<>> /\ ValidateSlaPayload(expected_run_every, expected_daily_time)
       THEN /\ slarules' =
                  <<[rule EXCEPT
                       !.expected_run_every_minutes =
                           IF "expected_run_every_minutes" \in payload.fields_set
                           THEN payload.expected_run_every_minutes ELSE @,
                       !.expected_daily_time =
                           IF "expected_daily_time" \in payload.fields_set
                           THEN payload.expected_daily_time ELSE @]>>
            /\ Audited("sla.updated", principal)
       ELSE UNCHANGED <<slarules, audit>>
    /\ UNCHANGED <<runs, queue, logs, schedule, now, wk, proc, resp, called, schedVars,
                   slaVars, logVars, regVars, cronVars, poolVars, hbkeys, envVars, cycVars>>

\* a robot without schedule and without SLA rule
InitRules ==
    /\ schedule = NoSchedule
    /\ runs = <<>>
    /\ queue = <<>>
    /\ logs = <<>>
    /\ audit = <<>>
    /\ now = 0
    /\ wk = WorkerIdle
    /\ proc = [state |-> "none", code |-> NULL]
    /\ resp = [run_id |-> NULL, code |-> NULL, principal |-> NoUser]
    /\ called = {}
    /\ SchedIdle
    /\ SlaIdle
    /\ LogIdle
    /\ OneRobot
    /\ CronIdle
    /\ OpsIdle

NextRules ==
    \/ \E principal \in Principals, window_start \in TimeOrNull, window_end \in TimeOrNull :
          CreateSchedule(principal, window_start, window_end)
    \/ \E principal \in Principals, payload \in ScheduleUpdates :
          UpdateSchedule(principal, payload)
    \/ \E principal \in Principals : DeleteSchedule(principal)
    \/ \E principal \in Principals, every \in {NULL, 1}, daily \in {NoTime, "08:00"} :
          CreateSlaRule(principal, every, daily, 1)
    \/ \E principal \in Principals, payload \in SlaRuleUpdates :
          UpdateSlaRule(principal, payload)

SpecRules == InitRules /\ [][NextRules]_vars

\* C28: the stored Schedule has window_start and window_end both set or both
\* null after any sequence of create_schedule and update_schedule calls.
C28_WindowBothOrNeither ==
    schedule # NoSchedule =>
        ((schedule.window_start = NoTime) <=> (schedule.window_end = NoTime))

\* C29: the stored SlaRule has exactly one of expected_run_every_minutes and
\* expected_daily_time set after any sequence of create_sla_rule and
\* update_sla_rule calls.
C29_ExactlyOneExpectation ==
    slarules # <<>> =>
        ((slarules[1].expected_run_every_minutes # NULL)
            # (slarules[1].expected_daily_time # NoTime))

(***************************************************************************)
(* SpecGate: the scheduler replicas of SpecSched next to the callers that  *)
(* create runs of the same robot without the dispatch lock: the execute    *)
(* endpoint and a worker that fails a run and creates its retry.           *)
(***************************************************************************)
\* process_run for the PENDING run r, from the lease to the return: the run
\* ends SUCCESS or FAILED and _schedule_retry_if_needed may insert a retry
WorkRun(r) ==
    /\ r \in DOMAIN runs
    /\ runs[r].status = PENDING
    /\ \E status \in {SUCCESS, FAILED} :
          LET finished == [runs[r] EXCEPT !.status = status, !.started_at = now,
                                          !.finished_at = now] IN
          runs' = IF /\ RetryNeeded(finished, finished.schedule_id # NULL, schedule.retry_count)
                     /\ Len(runs) < MaxRuns
                  THEN Append(SetRun(r, finished), RetryRun(finished, r))
                  ELSE SetRun(r, finished)
    /\ UNCHANGED <<queue, logs, audit, schedule, now, wk, proc, resp, called,
                   schedVars, slaVars, auxVars>>

\* the cycle of replica p while the store holds fewer than MaxRuns runs
GateDispatchRun(p) == Len(runs) < MaxRuns /\ DispatchRun(p)

InitGate ==
    /\ schedule \in ScheduleRows({MaxRetry}, 1..MaxConcurrency)
    /\ runs = <<>>
    /\ queue = <<>>
    /\ logs = <<>>
    /\ audit = <<>>
    /\ now = SecondsPerMinute - 1
    /\ wk = WorkerIdle
    /\ proc = [state |-> "none", code |-> NULL]
    /\ resp = [run_id |-> NULL, code |-> NULL, principal |-> NoUser]
    /\ called = {}
    /\ SchedIdle
    /\ SlaIdle
    /\ AuxIdle

NextGate ==
    \/ \E p \in Replicas : StartCycle(p)
    \/ \E p \in Replicas : AcquireRobotLock(p)
    \/ \E p \in Replicas : CheckDispatch(p)
    \/ \E p \in Replicas : GateDispatchRun(p)
    \/ SchedTick
    \/ QueueRobotRun
    \/ \E r \in DOMAIN runs : WorkRun(r)

SpecGate == InitGate /\ [][NextGate]_vars

\* C30: when a scheduler replica inserts the SCHEDULED run of the schedule,
\* the robot has fewer than max_concurrency other runs in PENDING or RUNNING.
C30_ConcurrencyGate ==
    [][\A p \in Replicas :
          (/\ sch[p].pc = "create"
           /\ sch'[p].pc # "create"
           /\ Len(runs') = Len(runs) + 1
           /\ runs'[Len(runs')].trigger_type = SCHEDULED) =>
              ActiveRuns < schedule.max_concurrency]_vars

(***************************************************************************)
(* SpecStreak: the monitor cycle for a robot whose rule alerts on failure, *)
(* while runs of the robot are queued and move through their statuses.     *)
(* No two runs are queued at the same clock reading, so the order by       *)
(* queued_at is the order of the ids.                                      *)
(***************************************************************************)
\* a run of the robot is queued later than every run it has
QueueLaterRun ==
    /\ Len(runs) <= MaxRuns
    /\ IF runs = <<>> THEN TRUE ELSE LastQueuedAt < now
    /\ runs' = Append(runs, NewRun(MANUAL, 1, NULL, NULL, "PROD", NULL, now))
    /\ UNCHANGED <<queue, logs, audit, schedule, now, wk, proc, resp, called,
                   schedVars, slaVars, auxVars>>

\* the status a worker or the cancel endpoint gives to run r next
MoveRun(r) ==
    /\ r \in DOMAIN runs
    /\ \E status \in {RUNNING, SUCCESS, FAILED, CANCELED} :
          /\ \/ runs[r].status = PENDING /\ status \in {RUNNING, FAILED}
             \/ runs[r].status = RUNNING /\ status \in {SUCCESS, FAILED, CANCELED}
          /\ runs' = SetRun(r, [runs[r] EXCEPT !.status = status])
    /\ UNCHANGED <<queue, logs, audit, schedule, now, wk, proc, resp, called,
                   schedVars, slaVars, auxVars>>

InitStreak ==
    /\ schedule \in ScheduleRows({0}, {1})
    /\ runs = <<>>
    /\ queue = <<>>
    /\ logs = <<>>
    /\ audit = <<>>
    /\ now = 0
    /\ wk = WorkerIdle
    /\ proc = [state |-> "none", code |-> NULL]
    /\ resp = [run_id |-> NULL, code |-> NULL, principal |-> NoUser]
    /\ called = {}
    /\ SchedIdle
    /\ SlaIdle
    /\ LogIdle
    /\ OneRobot
    /\ CronIdle
    /\ workers = <<>>
    /\ pool = <<>>
    /\ handed = <<>>
    /\ hbkeys = {}
    /\ \E on_failure \in BOOLEAN : slarules = <<SlaRule(1, NoTime, 1, on_failure, FALSE)>>
    /\ childenv = <<>>
    /\ cycle = <<>>

NextStreak ==
    \/ TickBy(SecondsPerMinute)
    \/ QueueLaterRun
    \/ \E r \in DOMAIN runs : MoveRun(r)
    \/ MonStart("m1")
    \/ MonCheck("m1")
    \/ MonInsert("m1")
    \/ \E i \in DOMAIN alerts : ResolveAlert(i)

SpecStreak == InitStreak /\ [][NextStreak]_vars

\* the robot has at least threshold runs and each of the threshold runs
\* queued last is FAILED
StreakOf(threshold) ==
    /\ Cardinality(DOMAIN runs) >= threshold
    /\ \A r \in DOMAIN runs :
          Cardinality({o \in DOMAIN runs : runs[o].queued_at > runs[r].queued_at}) < threshold
             => runs[r].status = FAILED

\* C31: for a rule with alert_on_failure the FAILURE_STREAK check of a tick
\* goes on to open an alert exactly when the robot has at least T runs, the
\* T runs queued last are all FAILED and no FAILURE_STREAK alert is
\* unresolved; the alert it opens is CRITICAL.
C31_FailureStreak ==
    [][\A m \in Monitors :
          /\ (/\ mon[m].pc = "check"
              /\ mon[m].type = "FAILURE_STREAK"
              /\ mon'[m] # mon[m]
              /\ slarules[1].alert_on_failure) =>
                 /\ (mon'[m].pc = "insert") <=>
                       /\ StreakOf(FailureStreakThreshold)
                       /\ OpenAlerts(1, "FAILURE_STREAK") = {}
                 /\ alerts' = alerts
          /\ (/\ mon[m].pc = "insert"
              /\ mon[m].type = "FAILURE_STREAK"
              /\ mon'[m] # mon[m]) =>
                 /\ Len(alerts') = Len(alerts) + 1
                 /\ SubSeq(alerts', 1, Len(alerts)) = alerts
                 /\ alerts'[Len(alerts')].type = "FAILURE_STREAK"
                 /\ alerts'[Len(alerts')].severity = "CRITICAL"
                 /\ alerts'[Len(alerts')].resolved_at = NULL]_vars

\* three runs, the oldest one not FAILED and the two queued last FAILED: the
\* tick opened the alert; a later tick with the streak still there passed its
\* check and left that alert the only one
C31_Witness ==
    /\ Len(runs) = 3
    /\ runs[1].status = SUCCESS
    /\ StreakOf(FailureStreakThreshold)
    /\ Len(alerts) = 1
    /\ alerts[1].type = "FAILURE_STREAK"
    /\ alerts[1].severity = "CRITICAL"
    /\ alerts[1].resolved_at = NULL
    /\ mon["m1"].pc = "check"
    /\ mon["m1"].type = "QUEUE_BACKLOG"
    /\ mon["m1"].now_utc > alerts[1].created_at

(***************************************************************************)
(* SpecBusy: run_worker with process_run as a call that takes time. The    *)
(* loop of run_worker is the only place that beats; it is one thread and   *)
(* process_run returns to it when the run is over.                         *)
(***************************************************************************)
\* mutant: no message is held back
NotDue_Never(item) == FALSE

\* isinstance(not_before_ts, (int, float)) and time.time() < float(not_before_ts)
NotDue(item) == item.not_before_ts # NULL /\ now < item.not_before_ts

\* run_worker after brpop returned a message, up to the call of process_run:
\* the message is pushed back as in AfterLease, or process_run is entered
EnterProcessRun(w) ==
    /\ pool[w].pc = "leased"
    /\ LET item == pool[w].item
           status == workers[w].status IN
       IF status \in NotLeasing \/ NotDue(item)
       THEN /\ queue' = Requeue(queue, item)
            /\ pool' = [pool EXCEPT ![w].pc = "top", ![w].item = NoItem,
                                    ![w].current_status = status]
            /\ UNCHANGED handed
       ELSE /\ pool' = [pool EXCEPT ![w].pc = "process_run", ![w].current_status = status]
            /\ handed' = [handed EXCEPT ![item.run_id] = @ + 1]
            /\ UNCHANGED queue
    /\ UNCHANGED <<runs, logs, audit, schedule, now, wk, proc, resp, called,
                   schedVars, slaVars, logVars, regVars, cronVars, monVars, envVars, cycVars, workers>>

\* process_run returns: the supervision loop ended, the run is final
ReturnFromProcessRun(w) ==
    /\ pool[w].pc = "process_run"
    /\ pool' = [pool EXCEPT ![w].pc = "top", ![w].item = NoItem]
    /\ UNCHANGED <<runVars, schedVars, slaVars, logVars, regVars, cronVars,
                   workers, handed, monVars, envVars, cycVars>>

\* ten seconds pass; a worker that is not inside process_run goes through
\* the top of its loop at least that often (brpop waits 5 s at most), so
\* none of them is due for a heartbeat when the clock moves
BusyTick ==
    /\ \A w \in WorkerIds :
          pool[w].pc = "process_run" \/ ~Due(pool[w].last_heartbeat_ts, HeartbeatSeconds)
    /\ TickBy(HeartbeatSeconds)

\* two workers that have just beaten, one message in the queue
InitBusy ==
    /\ schedule \in ScheduleRows({0}, {1})
    /\ runs = <<>>
    /\ queue = <<Message(1, NULL)>>
    /\ logs = <<>>
    /\ audit = <<>>
    /\ now = 0
    /\ wk = WorkerIdle
    /\ proc = [state |-> "none", code |-> NULL]
    /\ resp = [run_id |-> NULL, code |-> NULL, principal |-> NoUser]
    /\ called = {}
    /\ SchedIdle
    /\ SlaIdle
    /\ LogIdle
    /\ OneRobot
    /\ CronIdle
    /\ workers = [w \in WorkerIds |-> [status |-> RUNNING, last_heartbeat |-> 0]]
    /\ pool = [w \in WorkerIds |-> PoolStart]
    /\ handed = <<0>>
    /\ hbkeys = {[worker |-> w, ts |-> 0, expires_at |-> HeartbeatTtl] : w \in WorkerIds}
    /\ slarules = <<>>
    /\ childenv = <<>>
    /\ cycle = <<>>

NextBusy ==
    \/ BusyTick
    \/ \E w \in WorkerIds : PollStatus(w)
    \/ \E w \in WorkerIds : Brpop(w)
    \/ \E w \in WorkerIds : EnterProcessRun(w)
    \/ \E w \in WorkerIds : ReturnFromProcessRun(w)
    \/ MonStart("m1")
    \/ MonCheck("m1")
    \/ MonInsert("m1")

SpecBusy == InitBusy /\ [][NextBusy]_vars

\* C32: while a worker is inside process_run the age of its heartbeat
\* (Worker.last_heartbeat, and the broker key written with it) stays within
\* the stale window.
C32_BusyWorkerBeats ==
    \A w \in WorkerIds :
        pool[w].pc = "process_run" =>
            /\ now - workers[w].last_heartbeat <= WorkerStaleSeconds
            /\ \A k \in ListWorkerHeartbeats :
                  (k.worker = w /\ k.ts = workers[w].last_heartbeat) =>
                      now - k.ts <= WorkerStaleSeconds

\* ---------------------------------------------------------------------
\* run_worker when the broker is unavailable: redis.llen, redis.brpop and
\* redis.rpush raise, nothing inside the while loop catches, and the
\* finally clause of run_worker marks the worker STOPPED on the way out of
\* the process

\* finally: _mark_worker_stopped() - the row gets status STOPPED and the
\* process, with whatever message it held, is gone
LeaveLoop(w, rows) ==
    /\ workers' = [rows EXCEPT ![w].status = STOPPED]
    /\ pool' = [pool EXCEPT ![w].pc = "exited", ![w].item = NoItem]

\* refresh_queue_depth_sync() raises at the top of an iteration, after
\* the heartbeat of that iteration was written
RefreshQueueDepthRaises(w) ==
    /\ pool[w].pc = "top"
    /\ LET beat == Due(pool[w].last_heartbeat_ts, HeartbeatSeconds) IN
       /\ LeaveLoop(w, IF beat THEN [workers EXCEPT ![w].last_heartbeat = now] ELSE workers)
       /\ hbkeys' = RegisterWorkerHeartbeat(w, HeartbeatTtl, FALSE)
    /\ UNCHANGED <<runVars, schedVars, slaVars, logVars, regVars, cronVars, handed, slarules, envVars, cycVars>>

\* redis.brpop(queue_name, timeout=5) raises
BrpopRaises(w) ==
    /\ pool[w].pc = "brpop"
    /\ LeaveLoop(w, workers)
    /\ UNCHANGED <<runVars, schedVars, slaVars, logVars, regVars, cronVars, monVars, envVars, cycVars, handed>>

\* redis.rpush(queue_name, raw_payload) raises while a popped message is
\* pushed back by a worker that was paused or for a message that is not
\* due yet
RpushRaises(w) ==
    /\ pool[w].pc = "leased"
    /\ \/ workers[w].status \in NotLeasing
       \/ pool[w].item.not_before_ts # NULL /\ now < pool[w].item.not_before_ts
    /\ LeaveLoop(w, workers)
    /\ UNCHANGED <<runVars, schedVars, slaVars, logVars, regVars, cronVars, monVars, envVars, cycVars, handed>>

NextBroker ==
    \/ Tick
    \/ PoolEnqueueRun
    \/ \E w \in WorkerIds, status \in {PAUSED, RUNNING} : SetWorkerStatus(w, status)
    \/ \E w \in WorkerIds : PollStatus(w)
    \/ \E w \in WorkerIds : Brpop(w)
    \/ \E w \in WorkerIds : AfterLease(w)
    \/ \E w \in WorkerIds : RefreshQueueDepthRaises(w)
    \/ \E w \in WorkerIds : BrpopRaises(w)
    \/ \E w \in WorkerIds : RpushRaises(w)

SpecBroker == InitPool /\ [][NextBroker]_vars

\* C33: a broker call that fails in the lease loop does not end the worker
\* loop, and a message that a worker popped is not lost: every message
\* that was never handed to process_run is in the queue or in the hands of
\* a worker
C33_BrokerFailureSurvived ==
    /\ \A w \in WorkerIds : pool[w].pc # "exited"
    /\ \A id \in 1..Len(handed) :
          handed[id] = 0 =>
              \/ \E i \in 1..Len(queue) : queue[i].run_id = id
              \/ \E w \in WorkerIds : pool[w].item.run_id = id

(***************************************************************************)
(* SpecBackoff: two workers and a message that carries not_before_ts, with *)
(* the clock and every worker loop taking their steps (weak fairness: each *)
(* worker is a process of its own that keeps iterating, and time passes).  *)
(* The first worker is never paused.                                       *)
(***************************************************************************)
\* the message of a retry that is due at second 1 or later is in the queue
InitBackoff ==
    /\ schedule \in ScheduleRows({0}, {1})
    /\ runs = <<>>
    /\ logs = <<>>
    /\ audit = <<>>
    /\ now = 0
    /\ wk = WorkerIdle
    /\ proc = [state |-> "none", code |-> NULL]
    /\ resp = [run_id |-> NULL, code |-> NULL, principal |-> NoUser]
    /\ called = {}
    /\ SchedIdle
    /\ SlaIdle
    /\ LogIdle
    /\ RegIdle
    /\ CronIdle
    /\ workers = [w \in WorkerIds |-> [status |-> RUNNING, last_heartbeat |-> 0]]
    /\ pool = [w \in WorkerIds |-> PoolStart]
    /\ \E not_before_ts \in 1..MaxTime : queue = <<Message(1, not_before_ts)>>
    /\ handed = <<0>>
    /\ hbkeys = {[worker |-> w, ts |-> 0, expires_at |-> HeartbeatTtl] : w \in WorkerIds}
    /\ slarules = <<>>
    /\ childenv = <<>>
    /\ cycle = <<>>

\* one iteration step of the loop of worker w
WorkerStep(w) ==
    \/ PollStatus(w)
    \/ Brpop(w)
    \/ EnterProcessRun(w)
    \/ ReturnFromProcessRun(w)

NextBackoff ==
    \/ Tick
    \/ PoolEnqueueRun
    \/ \E status \in {PAUSED, RUNNING} : SetWorkerStatus("w2", status)
    \/ \E w \in WorkerIds : WorkerStep(w)

SpecBackoff ==
    /\ InitBackoff
    /\ [][NextBackoff]_vars
    /\ WF_vars(Tick)
    /\ \A w \in WorkerIds : WF_vars(WorkerStep(w))

\* the messages that exist: in the queue or popped by a worker
Messages == {queue[i] : i \in 1..Len(queue)} \cup {pool[w].item : w \in WorkerIds}

\* the message of run id exists, was not handed to process_run yet and is
\* not held back any more
Waiting(id) ==
    /\ id <= Len(handed)
    /\ handed[id] = 0
    /\ \E item \in Messages : item.run_id = id /\ ~NotDue(item)

\* C34: process_run is never called for a message before its not_before_ts,
\* by any worker; a worker that popped a message that is not due pushes it
\* back as it was and hands nothing to process_run; and a message that is
\* due is eventually handed to process_run
C34_BackoffRespected ==
    /\ [][\A w \in WorkerIds :
            (pool[w].pc = "leased" /\ pool'[w].pc # "leased" /\ NotDue(pool[w].item)) =>
                /\ queue' = Append(queue, pool[w].item)
                /\ handed' = handed]_vars
    /\ [][\A id \in 1..Len(handed) :
            handed'[id] > handed[id] =>
                \E w \in WorkerIds :
                    /\ pool[w].item.run_id = id
                    /\ (pool[w].item.not_before_ts # NULL =>
                            now >= pool[w].item.not_before_ts)]_vars
    /\ \A id \in 1..MaxRuns : Waiting(id) ~> (id <= Len(handed) /\ handed[id] > 0)

\* the message that was held back until second 1 or later has been handed
\* to process_run
C34_Witness ==
    /\ handed[1] > 0
    /\ \E w \in WorkerIds : pool[w].pc = "process_run" /\ pool[w].item.run_id = 1

(***************************************************************************)
(* SpecLock: run_scheduler_cycle on an engine that is not mssql, where the *)
(* dispatch lock is the threading.Lock of _local_schedule_locks and the    *)
(* cycles are threads of one process. The lock is taken without blocking   *)
(* before the try block and given back in its finally clause.              *)
(***************************************************************************)
\* mutant: the finally clause leaves the lock as it is
ReleaseRobotLock_Kept(held) == held

\* _release_robot_lock: lock = _local_schedule_locks.get(lock_key);
\* if lock and lock.locked(): lock.release()
ReleaseRobotLock(held) == IF held # Unlocked THEN Unlocked ELSE held

\* the dedupe check and the concurrency gate inside the try block; a skip
\* is a continue, which runs the finally clause
LocalCheckDispatch(p) ==
    /\ sch[p].pc = "check"
    /\ IF AlreadyDispatchedThisMinute(schedule.id, sch[p].now_utc)
       THEN /\ sch' = SetSch(p, "idle", NULL, "skipped_duplicate")
            /\ slock' = ReleaseRobotLock(slock)
       ELSE IF ActiveRuns >= schedule.max_concurrency
       THEN /\ sch' = SetSch(p, "idle", NULL, "skipped_concurrency")
            /\ slock' = ReleaseRobotLock(slock)
       ELSE /\ sch' = SetSch(p, "create", sch[p].now_utc, "none")
            /\ slock' = slock
    /\ UNCHANGED <<runVars, sdue, slaVars, auxVars>>

\* await create_run_and_enqueue(...) and log_audit_event inside the inner
\* try: "ok" dispatches, "version" is the ValueError that the inner except
\* logs, "lpush" is an exception of another class (the broker), which
\* leaves the loop and the cycle after the finally clause
LocalDispatchRun(p) ==
    /\ sch[p].pc = "create"
    /\ \E outcome \in {"ok", "version", "lpush"} :
          LET new == Len(runs) + 1 IN
          IF outcome = "version"
          THEN /\ sch' = SetSch(p, "finally", NULL, "failed")
               /\ UNCHANGED <<runs, queue, audit, sdue>>
          ELSE /\ runs' = Append(runs, NewRun(SCHEDULED, 1, schedule.id, NULL, "PROD", NULL, now))
               /\ sdue' = Append(sdue, sch[p].now_utc)
               /\ IF outcome = "ok"
                  THEN /\ queue' = <<Message(new, NULL)>> \o queue
                       /\ audit' = Append(audit, [action |-> "schedule.dispatched",
                                                   target |-> new, actor |-> NoUser])
                       /\ sch' = SetSch(p, "finally", NULL, "dispatched")
                  ELSE /\ sch' = SetSch(p, "finally", NULL, "aborted")
                       /\ UNCHANGED <<queue, audit>>
    /\ UNCHANGED <<logs, schedule, now, wk, proc, resp, called, slock, slaVars, auxVars>>

\* finally: _release_robot_lock(db=db, lock_key=lock_key)
FinallyRelease(p) ==
    /\ sch[p].pc = "finally"
    /\ sch' = SetSch(p, "idle", NULL, sch[p].result)
    /\ slock' = ReleaseRobotLock(slock)
    /\ UNCHANGED <<runVars, sdue, slaVars, auxVars>>

NextLock ==
    \/ \E p \in Replicas : StartCycle(p)
    \/ \E p \in Replicas : AcquireRobotLock(p)
    \/ \E p \in Replicas : LocalCheckDispatch(p)
    \/ \E p \in Replicas : LocalDispatchRun(p)
    \/ \E p \in Replicas : FinallyRelease(p)
    \/ SchedTick

SpecLock == InitSched /\ [][NextLock]_vars

\* C35: a cycle that took the dispatch lock gives it back before it moves
\* on or aborts, on every path: a cycle that is not between the acquire
\* and the end of the finally clause does not hold the lock, so the next
\* acquire finds it free; and the lock only changes hands by a step of the
\* cycle that holds it or that takes it when it is free
C35_LockAlwaysReleased ==
    [][/\ \A p \in Replicas :
             sch'[p].pc \in {"idle", "acquire"} => slock' # p
       /\ \A p \in Replicas :
             (slock = p /\ slock' # p) =>
                 (sch[p].pc \in {"check", "finally"} /\ sch'[p].pc = "idle" /\ slock' = Unlocked)
       /\ \A p \in Replicas :
             (slock # p /\ slock' = p) => (slock = Unlocked /\ sch[p].pc = "acquire")]_vars

\* a cycle that was aborted by the broker's exception has given the lock
\* back and the other cycle holds it now
C35_Witness ==
    /\ sch["s1"].pc = "idle"
    /\ sch["s1"].result = "aborted"
    /\ slock = "s2"

(***************************************************************************)
(* _validate_schedule_payload on the expression "0 <field> * * *" whose    *)
(* hour field is the typed text, checked under SpecCron                    *)
(***************************************************************************)
\* _validate_schedule_payload(cron_expr, ...) at a moment of the given
\* minute and hour: the call of _cron_matches on the probe moment, whose
\* `and` chain evaluates the hour field only when the minute field
\* matched, then the regex on every part of every field that is not "*"
CronAccepted(raw, probe_minute, probe_hour) ==
    /\ MatchCronField(<<"0">>, probe_minute, 0, FALSE) = "True" =>
           MatchCronField(raw, probe_hour, 0, FALSE) # "ZeroDivisionError"
    /\ \A i \in DOMAIN Split(raw) :
          Split(raw)[i] = <<"*">> \/ CronFieldRegex(Split(raw)[i])

\* C37: for an expression that _validate_schedule_payload accepted, at
\* whatever moment it was validated, _cron_matches returns true or false
\* for every datetime and never raises
C37_MatcherTotal ==
    \A probe_minute, probe_hour \in 0..MaxValue :
        (cres.kind = "minute" /\ CronAccepted(cron, probe_minute, probe_hour)) =>
            \A value \in DOMAIN cres.out : cres.out[value] \in {"True", "False"}

(***************************************************************************)
(* SpecCycle: one run_scheduler_cycle over the enabled schedules, one      *)
(* iteration of its for loop per step, at minute 0 of an hour. A schedule  *)
(* is its minute field and the state of its robot.                         *)
(***************************************************************************)
CronFields == {<<"*">>, <<"1">>, <<"*", "/", "0">>}
RobotStates == {"ok", "no_version", "missing_env"}

\* _is_schedule_due: _cron_matches on the local time of now_utc
IsScheduleDue(row) == MatchCronField(row.cron, 0, 0, FALSE)

\* the results of the iterations with that of the current one set
SetResult(result) == [cycle.result EXCEPT ![cycle.pos] = result]

\* except ValueError as exc: logger.warning(...), then the finally clause
\* and the next schedule
AfterValueError(result) ==
    [cycle EXCEPT !.result = SetResult(result), !.pos = @ + 1]

\* one iteration of `for schedule in schedules`: _is_schedule_due outside
\* any try block, then (lock, dedupe and gate pass) create_run_and_enqueue,
\* which raises ValueError for a robot without a runnable version or with
\* missing required env keys, or commits the row and publishes; "lpush" is
\* the exception of the broker, which is not a ValueError
CycleIteration ==
    /\ cycle.state = "loop"
    /\ cycle.pos <= Len(cycle.rows)
    /\ LET row == cycle.rows[cycle.pos]
           due == IsScheduleDue(row)
           new == Len(runs) + 1 IN
       IF due = "ZeroDivisionError"
       THEN /\ cycle' = [cycle EXCEPT !.state = "aborted"]
            /\ UNCHANGED <<runs, queue, audit>>
       ELSE IF due = "False"
       THEN /\ cycle' = [cycle EXCEPT !.result = SetResult("not_due"), !.pos = @ + 1]
            /\ UNCHANGED <<runs, queue, audit>>
       ELSE IF row.robot # "ok"
       THEN /\ cycle' = AfterValueError("failed")
            /\ UNCHANGED <<runs, queue, audit>>
       ELSE /\ runs' = Append(runs, NewRun(SCHEDULED, 1, cycle.pos, NULL, "PROD", NULL, now))
            /\ \E outcome \in {"ok", "lpush"} :
                  IF outcome = "ok"
                  THEN /\ queue' = <<Message(new, NULL)>> \o queue
                       /\ audit' = Append(audit, [action |-> "schedule.dispatched",
                                                   target |-> new, actor |-> NoUser])
                       /\ cycle' = [cycle EXCEPT !.result = SetResult("dispatched"),
                                                 !.pos = @ + 1]
                  ELSE /\ cycle' = [cycle EXCEPT !.result = SetResult("failed"),
                                                 !.state = "aborted"]
                       /\ UNCHANGED <<queue, audit>>
    /\ UNCHANGED <<logs, schedule, now, wk, proc, resp, called, schedVars, slaVars,
                   logVars, regVars, cronVars, poolVars, monVars, envVars>>

\* return SchedulerCycleResult(...)
CycleReturn ==
    /\ cycle.state = "loop"
    /\ cycle.pos > Len(cycle.rows)
    /\ cycle' = [cycle EXCEPT !.state = "returned"]
    /\ UNCHANGED <<runVars, schedVars, slaVars, logVars, regVars, cronVars,
                   poolVars, monVars, envVars>>

\* the enabled schedules the select returned, in its order
InitCycle ==
    /\ schedule \in ScheduleRows({0}, {1})
    /\ runs = <<>>
    /\ queue = <<>>
    /\ logs = <<>>
    /\ audit = <<>>
    /\ now = 0
    /\ wk = WorkerIdle
    /\ proc = [state |-> "none", code |-> NULL]
    /\ resp = [run_id |-> NULL, code |-> NULL, principal |-> NoUser]
    /\ called = {}
    /\ SchedIdle
    /\ SlaIdle
    /\ LogIdle
    /\ RegIdle
    /\ CronIdle
    /\ workers = <<>>
    /\ pool = <<>>
    /\ handed = <<>>
    /\ hbkeys = {}
    /\ slarules = <<>>
    /\ childenv = <<>>
    /\ \E rows \in [1..MaxSchedules -> [cron : CronFields, robot : RobotStates]] :
          cycle = [rows |-> rows, pos |-> 1, state |-> "loop",
                   result |-> [i \in 1..MaxSchedules |-> "none"]]

NextCycle == CycleIteration \/ CycleReturn

SpecCycle == InitCycle /\ [][NextCycle]_vars

\* C36: when the cycle is over, every enabled schedule that is due in the
\* minute and whose own dispatch did not fail was dispatched, whatever
\* failed for the other schedules of the cycle
C36_CycleIsolation ==
    (cycle # <<>> /\ cycle.state \in {"returned", "aborted"}) =>
        \A i \in DOMAIN cycle.rows :
            (/\ IsScheduleDue(cycle.rows[i]) = "True"
             /\ cycle.rows[i].robot = "ok"
             /\ cycle.result[i] # "failed") =>
                cycle.result[i] = "dispatched"

(***************************************************************************)
(* SpecStream: run_log_stream statement by statement next to the worker's  *)
(* append_log calls: the replay query, then the subscription to the run's  *)
(* channel. The subscriber stays connected. A subscription receives the    *)
(* frames published after it was made.                                     *)
(***************************************************************************)
\* recent_logs = get_run_logs(db=db, run_id=run_id, limit=200) and the
\* send_json loop; seen is the number of rows of the run at the query
StreamReplay ==
    /\ sub.state = "closed"
    /\ sub' = [state |-> "replayed", replay |-> GetRunLogs(1, ReplayLimit),
               seen |-> Len(RunRows(logs, 1)), since |-> 0]
    /\ UNCHANGED <<runVars, schedVars, slaVars, extVars, chan, lw, lineq, calls>>

\* await pubsub.subscribe(get_run_log_channel(str(run_id))): since is the
\* number of frames the channel had carried before
StreamSubscribe ==
    /\ sub.state = "replayed"
    /\ sub' = [sub EXCEPT !.state = "subscribed", !.since = Len(chan)]
    /\ UNCHANGED <<runVars, schedVars, slaVars, extVars, chan, lw, lineq, calls>>

\* process_run of run 1 has set it to RUNNING and is about to log; nobody
\* is attached
InitStream ==
    /\ schedule \in ScheduleRows({0}, {1})
    /\ runs = <<[NewRun(MANUAL, 1, NULL, NULL, "PROD", NULL, 0)
                    EXCEPT !.status = RUNNING, !.started_at = 0]>>
    /\ queue = <<>>
    /\ logs = <<>>
    /\ audit = <<>>
    /\ now = 0
    /\ wk = WorkerIdle
    /\ proc = [state |-> "none", code |-> NULL]
    /\ resp = [run_id |-> NULL, code |-> NULL, principal |-> NoUser]
    /\ called = {}
    /\ SchedIdle
    /\ SlaIdle
    /\ chan = <<>>
    /\ lw = [LogWriterIdle EXCEPT !.phase = "startup"]
    /\ lineq = <<>>
    /\ calls = <<>>
    /\ sub = [state |-> "closed", replay |-> <<>>, seen |-> 0, since |-> 0]
    /\ ExtIdle

NextStream ==
    \/ \E level \in {"INFO", "ERROR"} : ChildWrites(level)
    \/ NextAppend
    \/ AppendLogCommit
    \/ AppendLogPublish
    \/ AppendLogReturn
    \/ StreamReplay
    \/ StreamSubscribe

SpecStream == InitStream /\ [][NextStream]_vars

\* the frames the subscription has received
LiveFrames == SubSeq(chan, sub.since + 1, Len(chan))

\* C38: every row of the run that was appended after the replay query and
\* published on the channel reaches the subscriber as a live frame, under
\* any interleaving of append_log with the replay and subscribe steps
C38_NoReplayGap ==
    sub.state = "subscribed" =>
        LET rows == RunRows(logs, 1) IN
        \A j \in DOMAIN rows :
            (j > sub.seen /\ \E i \in DOMAIN chan : chan[i] = rows[j]) =>
                \E k \in DOMAIN LiveFrames : LiveFrames[k] = rows[j]

(***************************************************************************)
(* SpecRestart: worker processes that start. The first worker starts under *)
(* an id whose Worker row was left STOPPED by the finally clause of the    *)
(* previous process, the second one under an id that has no row. Nobody    *)
(* calls the pause or resume endpoint. Each started process keeps          *)
(* iterating and time passes (weak fairness).                              *)
(***************************************************************************)
\* last_heartbeat_ts = 0.0 and last_status_poll_ts = 0.0: the epoch, more
\* than a heartbeat period before every reading of the model's clock
EpochStart == 0 - HeartbeatSeconds

\* upsert_worker_heartbeat: a new row gets status_if_new, an existing row
\* gets its last_heartbeat (hostname, version) written and keeps its status
UpsertWorkerHeartbeat(rows, w, status_if_new) ==
    IF w \in DOMAIN rows
    THEN [rows EXCEPT ![w].last_heartbeat = now]
    ELSE [x \in DOMAIN rows \cup {w} |->
             IF x = w THEN [status |-> status_if_new, last_heartbeat |-> now] ELSE rows[x]]

\* run_worker up to its loop: _mark_worker_running(), then the locals
StartWorker(w) ==
    /\ pool[w].pc = "down"
    /\ workers' = UpsertWorkerHeartbeat(workers, w, RUNNING)
    /\ pool' = [pool EXCEPT ![w] = [pc |-> "top", current_status |-> RUNNING, item |-> NoItem,
                                    last_heartbeat_ts |-> EpochStart,
                                    last_status_poll_ts |-> EpochStart]]
    /\ UNCHANGED <<runVars, schedVars, slaVars, logVars, regVars, cronVars,
                   handed, monVars, envVars, cycVars>>

\* one message is waiting; the row of w1 says STOPPED, w2 has no row
InitRestart ==
    /\ schedule \in ScheduleRows({0}, {1})
    /\ runs = <<>>
    /\ logs = <<>>
    /\ audit = <<>>
    /\ now = 0
    /\ wk = WorkerIdle
    /\ proc = [state |-> "none", code |-> NULL]
    /\ resp = [run_id |-> NULL, code |-> NULL, principal |-> NoUser]
    /\ called = {}
    /\ SchedIdle
    /\ SlaIdle
    /\ LogIdle
    /\ RegIdle
    /\ CronIdle
    /\ workers = [w \in {"w1"} |-> [status |-> STOPPED, last_heartbeat |-> 0]]
    /\ pool = [w \in WorkerIds |-> [PoolStart EXCEPT !.pc = "down"]]
    /\ queue = <<Message(1, NULL)>>
    /\ handed = <<0>>
    /\ hbkeys = {}
    /\ slarules = <<>>
    /\ childenv = <<>>
    /\ cycle = <<>>

\* a step of the process of worker w
ProcessStep(w) == StartWorker(w) \/ WorkerStep(w)

NextRestart ==
    \/ Tick
    \/ PoolEnqueueRun
    \/ \E w \in WorkerIds : ProcessStep(w)

SpecRestart ==
    /\ InitRestart
    /\ [][NextRestart]_vars
    /\ WF_vars(Tick)
    /\ \A w \in WorkerIds : WF_vars(ProcessStep(w))

\* C39: the worker that starts under the id of a row left STOPPED comes
\* back to leasing without a resume call: it eventually waits on the queue
\* (brpop), which it has to do before it can call process_run
C39_RestartResumesLeasing == <>(pool["w1"].pc = "brpop")

====
